---------------------------- MODULE Spec2Model ----------------------------
(***************************************************************************)
(* The facility-automation computers of vice: the enroute computers        *)
(* (ERAMComputer), the terminal computers they own (STARSComputer), their  *)
(* mailboxes, flight-plan and track tables and beacon-code pools.          *)
(*                                                                         *)
(* Strings that the code slices (facility identifiers, source tags, flight *)
(* ids) are sequences of one-character strings; other strings are TLA+     *)
(* strings.  Times are minutes.  A Go map is a function whose DOMAIN is    *)
(* the set of keys present.  Pointers to STARSFlightPlan objects held by   *)
(* an enroute computer are references into that computer's heap, so that   *)
(* aliasing between the flight-plan table and the track table is kept.     *)
(***************************************************************************)
EXTENDS Integers, Sequences, FiniteSets, TLC

(***************************************************************************)
(* Bounds of the model.                                                    *)
(***************************************************************************)
\* Deliveries to a mailbox are modelled while it holds fewer slots than this.
MaxInbox == 5
\* At most this many messages are delivered to a computer between two of its
\* drains.
MaxBatch == 2
\* Number of codes of each seeded pool that are still undrawn initially
\* (the codes NASLow .. NASLow + MaxCodes - 1).
MaxCodes == 2
\* Messages delivered to the enroute computer of the lookahead push.
MaxPush == 3
\* A delivery call of SpecDeliver is made while the mailbox named holds at
\* most this many messages.
MaxQueued == 2

(***************************************************************************)
(* Program constants.                                                      *)
(***************************************************************************)
\* Message types (iota constants).
Plan == 0
Amendment == 1
Cancellation == 2
RequestFlightPlan == 3
DepartureDM == 4
BeaconTerminate == 5
InitiateTransfer == 6
AcceptRecallTransfer == 7

\* getValidSquawkCodes: 0o1001 .. 0o7777, without 0o1200.
NASLow == 513
NASHigh == 4095
VFRCode == 640
\* getBeaconBankSquawks: bank*0o100 + 1 .. bank*0o100 + 0o77.
BankSize == 64
BankLast == 63
\* TransmitFPMessageTime, in minutes.
TransmitFPMessageTime == 30

(***************************************************************************)
(* The reference database av.DB: the ARTCCs, and the TRACONs with the      *)
(* ARTCC that owns each.  starsBeaconBank is the bank number handed to     *)
(* MakeERAMComputers.                                                      *)
(***************************************************************************)
ZNY == <<"Z", "N", "Y">>
ZBW == <<"Z", "B", "W">>
N90 == <<"N", "9", "0">>
PHL == <<"P", "H", "L">>
A90 == <<"A", "9", "0">>

ARTCCs == {ZNY, ZBW}
TRACONs == {N90, PHL, A90}
TRACON_ARTCC == [t \in TRACONs |-> IF t = A90 THEN ZBW ELSE ZNY]
starsBeaconBank == 8

(***************************************************************************)
(* Go maps.                                                                *)
(***************************************************************************)
EmptyMap == [x \in {} |-> 0]
MapSet(m, k, v) == [x \in (DOMAIN m) \cup {k} |-> IF x = k THEN v ELSE m[x]]
MapDel(m, k) == [x \in (DOMAIN m) \ {k} |-> m[x]]
Has(m, k) == k \in DOMAIN m

(***************************************************************************)
(* Times and source tags.                                                  *)
(***************************************************************************)
ZeroTime == 0
Digit(n) == CASE n = 0 -> "0" [] n = 1 -> "1" [] n = 2 -> "2" [] n = 3 -> "3"
              [] n = 4 -> "4" [] n = 5 -> "5" [] n = 6 -> "6" [] n = 7 -> "7"
              [] n = 8 -> "8" [] OTHER -> "9"
\* t.Format("1504Z")
Format1504Z(t) ==
  LET h == (t \div 60) % 24
      m == t % 60
  IN  <<Digit(h \div 10), Digit(h % 10), Digit(m \div 10), Digit(m % 10), "Z">>
formatSourceID(id, t) == id \o Format1504Z(t)

(***************************************************************************)
(* Messages, flight plans, tracks.                                         *)
(***************************************************************************)
NoCoordinationTime == [Time |-> ZeroTime, Type |-> ""]

\* The zero value of FlightPlanMessage.
ZeroMessage ==
  [SourceID |-> <<>>, MessageType |-> Plan, FlightID |-> <<>>, BCN |-> 0,
   CoordinationFix |-> "", CoordinationTime |-> NoCoordinationTime,
   Altitude |-> "", Route |-> <<>>,
   Identifier |-> "", TrackOwner |-> "", HandoffController |-> ""]

\* strings.Contains(s.Altitude, "VFR") on the altitude strings of the model.
ContainsVFR(alt) == alt \in {"VFR", "VFR/0"}

\* FlightPlanMessage.FlightPlan(): the message as a STARSFlightPlan.
FlightPlanOf(s) ==
  [Rules |-> IF ContainsVFR(s.Altitude) THEN "VFR" ELSE "IFR",
   AssignedSquawk |-> s.BCN,
   Route |-> s.Route,
   ECID |-> IF Len(s.FlightID) > 3 THEN SubSeq(s.FlightID, 1, 3) ELSE <<>>,
   Callsign |-> IF Len(s.FlightID) > 3
                THEN SubSeq(s.FlightID, 4, Len(s.FlightID)) ELSE <<>>,
   CoordinationFix |-> s.CoordinationFix,
   CoordinationTime |-> s.CoordinationTime,
   ContainedFacilities |-> <<>>,
   Altitude |-> s.Altitude,
   \* fields of the embedded av.FlightPlan that the conversion leaves zero
   Exit |-> ""]

\* STARSFlightPlan.Message()
MessageOf(fp) ==
  [ZeroMessage EXCEPT !.BCN = fp.AssignedSquawk,
                      !.Altitude = fp.Altitude,
                      !.Route = fp.Route,
                      !.FlightID = fp.ECID \o fp.Callsign,
                      !.CoordinationFix = fp.CoordinationFix,
                      !.CoordinationTime = fp.CoordinationTime]

\* A TrackInformation built by a composite literal that sets owner, handoff
\* controller and flight plan: the Identifier field stays "".
Track(owner, handoff, fp) ==
  [Identifier |-> "", TrackOwner |-> owner, HandoffController |-> handoff,
   FlightPlan |-> fp]

TransferAcceptedEvent == "TransferAccepted"
TransferRejectedEvent == "TransferRejected"
Event(type, callsign, to) ==
  [Type |-> type, Callsign |-> callsign, ToController |-> to]


(***************************************************************************)
(* The ERAM adaptations av.DB.ERAMAdaptations: for each enroute facility,  *)
(* coordination fix name -> altitude-banded rules, each with a destination *)
(* (ToFacility) and an origin (FromFacility).  Read-only input data.       *)
(***************************************************************************)
Rule(to, from, lo, hi) ==
  [ToFacility |-> to, FromFacility |-> from, Altitude |-> <<lo, hi>>]

CoordinationFixes(e) ==
  IF e = ZNY
  THEN [f \in {"CAMRN", "HOME", "DIXIE"} |->
          CASE f = "CAMRN" -> <<Rule(N90, ZBW, 0, 200), Rule(ZBW, ZNY, 201, 600)>>
            [] f = "HOME"  -> <<Rule(ZNY, ZNY, 0, 600)>>
            [] OTHER       -> <<Rule(A90, N90, 0, 200)>>]

  ELSE [f \in {"MERIT"} |-> <<Rule(A90, ZNY, 0, 600)>>]

\* strconv.Atoi on the altitude strings of the model; -1 stands for an error.
Atoi(alt) == CASE alt = "110" -> 110 [] alt = "250" -> 250 [] OTHER -> -1

\* AdaptationFixes.Fix(altitude): the rule whose band holds the altitude.
\* The result is [ok, fix].
NoFix == [ok |-> FALSE, fix |-> Rule(<<>>, <<>>, 0, 0)]
Fix(fixes, alt) ==
  LET a == Atoi(alt)
      hits == {i \in 1..Len(fixes) :
                 a >= fixes[i].Altitude[1] /\ a <= fixes[i].Altitude[2]}
  IN  IF a < 0 \/ hits = {} THEN NoFix
      ELSE [ok |-> TRUE,
            fix |-> fixes[CHOOSE i \in hits : \A j \in hits : i <= j]]

\* ERAMAdaptation.AdaptationFixForAltitude(fix, altitude)
AdaptationFixForAltitude(e, fix, alt) ==
  IF Has(CoordinationFixes(e), fix) THEN Fix(CoordinationFixes(e)[fix], alt)
  ELSE NoFix

\* ERAMAdaptation.FixForRouteAndAltitude(route, altitude): the first fix of
\* the route that the adaptation resolves for the altitude.  The route is
\* the sequence of its fix names.  The result is [ok, name].
FixForRouteAndAltitude(e, route, alt) ==
  LET hits == {i \in 1..Len(route) : AdaptationFixForAltitude(e, route[i], alt).ok}
  IN  IF hits = {} THEN [ok |-> FALSE, name |-> ""]
      ELSE [ok |-> TRUE, name |-> route[CHOOSE i \in hits : \A j \in hits : i <= j]]

(***************************************************************************)
(* Construction.                                                           *)
(***************************************************************************)
\* av.SquawkIsSPC: the special-purpose codes 7400, 7500, 7600, 7700, 7777
\* (octal).
SquawkIsSPC(sq) == sq \in {3840, 3904, 3968, 4032, 4095}

getValidSquawkCodes ==
  {i \in NASLow..NASHigh : ~SquawkIsSPC(i) /\ i # VFRCode}

getBeaconBankSquawks(bnk) == (bnk * BankSize + 1)..(bnk * BankSize + BankLast)

\* The MaxCodes smallest codes of a pool: the codes of it that the model
\* starts with (the others count as drawn already).
RECURSIVE Lowest(_, _)
Lowest(S, n) ==
  IF n = 0 \/ S = {} THEN {}
  ELSE LET m == CHOOSE x \in S : \A y \in S : x <= y
       IN  {m} \cup Lowest(S \ {m}, n - 1)

\* ERAMComputer.STARSComputers, ERAMComputer.ERAMInboxes and
\* STARSComputer.STARSInbox as built by MakeERAMComputer(s): the keys.
STARSComputers(e) == {t \in TRACONs : TRACON_ARTCC[t] = e}
ERAMInboxes(e) == ARTCCs \ {e}
STARSInbox(s) == TRACONs \ {s}

\* A nil *ERAMComputer or *STARSComputer.
NilComputer == <<>>

\* Mutant: a TRACON id gives the enroute computer only.
FacilityComputers_NoTerminal(fac) ==
  IF fac \in ARTCCs \cup TRACONs
  THEN [eram |-> IF fac \in ARTCCs THEN fac ELSE TRACON_ARTCC[fac],
        stars |-> NilComputer, err |-> "", panic |-> FALSE]
  ELSE [eram |-> NilComputer, stars |-> NilComputer,
        err |-> "ErrUnknownFacility", panic |-> FALSE]

\* ERAMComputers.FacilityComputers: [eram, stars, err], the computers named
\* by their ids; panic is set where the code panics.
FacilityComputers(fac) ==
  IF fac \in ARTCCs
  THEN [eram |-> fac, stars |-> NilComputer, err |-> "", panic |-> FALSE]
  ELSE IF fac \notin TRACONs
  THEN [eram |-> NilComputer, stars |-> NilComputer,
        err |-> "ErrUnknownFacility", panic |-> FALSE]
  ELSE IF TRACON_ARTCC[fac] \notin ARTCCs
          \/ fac \notin STARSComputers(TRACON_ARTCC[fac])
  THEN [eram |-> NilComputer, stars |-> NilComputer, err |-> "", panic |-> TRUE]
  ELSE [eram |-> TRACON_ARTCC[fac], stars |-> fac, err |-> "", panic |-> FALSE]

MakeERAMComputer(fac) ==
  [ReceivedMessages |-> <<>>,
   FlightPlans |-> EmptyMap,
   TrackInformation |-> EmptyMap,
   AvailableSquawks |-> Lowest(getValidSquawkCodes, MaxCodes),
   heap |-> EmptyMap,
   Fresh |-> 0]

MakeSTARSComputer(id) ==
  [ReceivedMessages |-> <<>>,
   ContainedPlans |-> EmptyMap,
   TrackInformation |-> EmptyMap,
   Fresh |-> 0]

(***************************************************************************)
(* State.                                                                  *)
(***************************************************************************)
VARIABLES
  eram,    \* ARTCC -> ERAMComputer
  stars,   \* TRACON -> STARSComputer
  bank,    \* ARTCC -> the one AvailableSquawks map that MakeERAMComputer
           \* hands to every STARSComputer it makes
  events,  \* events posted to the EventStream in the current tick
  pc,      \* position in UpdateComputers and in the drain it is running
  ret,     \* result of the call that has just returned, when it returns one
  issued   \* computer -> codes that CreateSquawk has returned on it

vars == <<eram, stars, bank, events, pc, ret, issued>>

Idle ==
  [op |-> "idle", comp |-> <<>>, batch |-> <<>>, i |-> 0, erams |-> {},
   starsLeft |-> {}, tracon |-> <<>>, simTime |-> 0]
NoRet ==
  [op |-> "", comp |-> <<>>, code |-> 0, err |-> "", to |-> <<>>, msg |-> ZeroMessage,
   out |-> <<>>]
Ret(op, comp, code, err) ==
  [NoRet EXCEPT !.op = op, !.comp = comp, !.code = code, !.err = err]
\* The result of a delivery call, with the facility and the message passed.
RetDelivery(op, comp, facility, msg, err) ==
  [Ret(op, comp, 0, err) EXCEPT !.to = facility, !.msg = msg]

ErrUnknownFacility == "ErrUnknownFacility"
ErrNoMoreAvailableSquawkCodes == "ErrNoMoreAvailableSquawkCodes"

\* The state the handlers work on, and the state after them.
World == [eram |-> eram, stars |-> stars, events |-> events, panic |-> FALSE]

Init ==
  /\ eram = [e \in ARTCCs |-> MakeERAMComputer(e)]
  /\ stars = [s \in TRACONs |-> MakeSTARSComputer(s)]
  /\ bank = [e \in ARTCCs |-> Lowest(getBeaconBankSquawks(starsBeaconBank), MaxCodes)]
  /\ events = <<>>
  /\ pc = Idle
  /\ ret = NoRet
  /\ issued = [c \in ARTCCs \cup TRACONs |-> {}]

(***************************************************************************)
(* Delivery.                                                               *)
(***************************************************************************)
\* Mutant: a Plan message is handled by the receiver as it is delivered.
AppendSTARS_HandlesNow(w, s, msg) ==
  [w EXCEPT !.stars[s].ReceivedMessages = Append(@, msg),
            !.stars[s].Fresh = @ + 1,
            !.stars[s].ContainedPlans =
               IF msg.MessageType = Plan /\ msg.BCN # 0
               THEN MapSet(@, msg.BCN, FlightPlanOf(msg)) ELSE @]

\* append(stars.ReceivedMessages, msg)
AppendSTARS(w, s, msg) ==
  [w EXCEPT !.stars[s].ReceivedMessages = Append(@, msg),
            !.stars[s].Fresh = @ + 1]
\* Mutant: the message is put at the head of the mailbox.
AppendERAM_AtHead(w, e, msg) ==
  [w EXCEPT !.eram[e].ReceivedMessages = <<msg>> \o @,
            !.eram[e].Fresh = @ + 1]

\* *inbox = append(*inbox, msg) on an enroute computer's ReceivedMessages
AppendERAM(w, e, msg) ==
  [w EXCEPT !.eram[e].ReceivedMessages = Append(@, msg),
            !.eram[e].Fresh = @ + 1]

\* ERAMComputer.ToSTARSFacility: [w, err]
ToSTARSFacility(w, e, facility, msg) ==
  IF facility \notin STARSComputers(e)
  THEN [w |-> w, err |-> ErrUnknownFacility]
  ELSE [w |-> AppendSTARS(w, facility, msg), err |-> ""]

\* Mutant: the computer's own mailbox is among the inboxes it knows.
SendMessageToERAM_OwnInbox(w, e, facility, msg) ==
  IF facility \notin ARTCCs
  THEN [w |-> w, err |-> ErrUnknownFacility]
  ELSE [w |-> AppendERAM(w, facility, msg), err |-> ""]

\* ERAMComputer.SendMessageToERAM: [w, err]
SendMessageToERAM(w, e, facility, msg) ==
  IF facility \notin ERAMInboxes(e)
  THEN [w |-> w, err |-> ErrUnknownFacility]
  ELSE [w |-> AppendERAM(w, facility, msg), err |-> ""]

\* STARSComputer.SendToOverlyingERAMFacility
SendToOverlyingERAMFacility(w, s, msg) == AppendERAM(w, TRACON_ARTCC[s], msg)

\* Mutant: the computer's own mailbox is among the mailboxes it knows.
SendTrackInfo_OwnInbox(w, s, receivingFacility, msg, simTime) ==
  LET m == [msg EXCEPT !.SourceID = formatSourceID(s, simTime)]
  IN  IF receivingFacility \in TRACONs
      THEN AppendSTARS(w, receivingFacility, m)
      ELSE SendToOverlyingERAMFacility(w, s, m)

\* STARSComputer.SendTrackInfo
SendTrackInfo(w, s, receivingFacility, msg, simTime) ==

  LET m == [msg EXCEPT !.SourceID = formatSourceID(s, simTime)]
  IN  IF receivingFacility \in STARSInbox(s)
      THEN AppendSTARS(w, receivingFacility, m)
      ELSE SendToOverlyingERAMFacility(w, s, m)

\* Mutant: the request is also put into the terminal computer's own mailbox.
STARSRequestFlightPlan_Recorded(w, s, bcn, simTime) ==
  LET msg == [ZeroMessage EXCEPT !.MessageType = RequestFlightPlan, !.BCN = bcn,
                                 !.SourceID = formatSourceID(s, simTime)]
  IN  AppendSTARS(SendToOverlyingERAMFacility(w, s, msg), s, msg)

\* STARSComputer.RequestFlightPlan
STARSRequestFlightPlan(w, s, bcn, simTime) ==
  SendToOverlyingERAMFacility(w, s,
    [ZeroMessage EXCEPT !.MessageType = RequestFlightPlan, !.BCN = bcn,
                        !.SourceID = formatSourceID(s, simTime)])


(***************************************************************************)
(* Beacon code allocation.                                                 *)
(***************************************************************************)
\* The pool a terminal computer draws from: the map its ERAM handed it.
STARSAvailableSquawks(s) == bank[TRACON_ARTCC[s]]

\* Mutant: the code that is returned stays in the pool.
DrawSquawk_KeepsCode(pool, sq) == pool

\* Mutant: the call empties the pool.
DrawSquawk_DropsAll(pool, sq) == {}

\* Mutant: the call puts the next code into the pool as it takes one out.
DrawSquawk_Refills(pool, sq) == (pool \ {sq}) \cup {sq + 1}

\* delete(comp.AvailableSquawks, sq) in CreateSquawk
DrawSquawk(pool, sq) == pool \ {sq}

\* ERAMComputer.CreateSquawk
ERAMCreateSquawk(e) ==
  /\ pc.op = "idle"
  /\ IF eram[e].AvailableSquawks = {}
     THEN /\ ret' = Ret("CreateSquawk", e, 0, ErrNoMoreAvailableSquawkCodes)
          /\ UNCHANGED <<eram, issued>>
     ELSE \E sq \in eram[e].AvailableSquawks :
            /\ eram' = [eram EXCEPT ![e].AvailableSquawks = DrawSquawk(@, sq)]
            /\ ret' = Ret("CreateSquawk", e, sq, "")
            /\ issued' = [issued EXCEPT ![e] = @ \cup {sq}]
  /\ UNCHANGED <<stars, bank, events, pc>>

\* STARSComputer.CreateSquawk
STARSCreateSquawk(s) ==
  /\ pc.op = "idle"
  /\ IF STARSAvailableSquawks(s) = {}
     THEN /\ ret' = Ret("CreateSquawk", s, 0, ErrNoMoreAvailableSquawkCodes)
          /\ UNCHANGED <<bank, issued>>
     ELSE \E sq \in STARSAvailableSquawks(s) :
            /\ bank' = [bank EXCEPT ![TRACON_ARTCC[s]] = DrawSquawk(@, sq)]
            /\ ret' = Ret("CreateSquawk", s, sq, "")
            /\ issued' = [issued EXCEPT ![s] = @ \cup {sq}]
  /\ UNCHANGED <<eram, stars, events, pc>>

(***************************************************************************)
(* STARSComputer.SortReceivedMessages: the handling of one message.  Each  *)
(* operator takes the computer st and the message and gives the computer   *)
(* afterwards and the events posted: [st, ev].                             *)
(***************************************************************************)
\* Mutant: a plan is installed only for a code that has none yet.
STARSPlan_KeepsFirst(st, msg) ==
  [st |-> IF msg.BCN # 0 /\ ~Has(st.ContainedPlans, msg.BCN)
          THEN [st EXCEPT !.ContainedPlans = MapSet(@, msg.BCN, FlightPlanOf(msg))]
          ELSE st,
   ev |-> <<>>]

\* case Plan
STARSPlan(st, msg) ==
  [st |-> IF msg.BCN # 0
          THEN [st EXCEPT !.ContainedPlans = MapSet(@, msg.BCN, FlightPlanOf(msg))]
          ELSE st,
   ev |-> <<>>]

\* case Amendment
STARSAmendment(st, msg) ==
  [st |-> [st EXCEPT !.ContainedPlans = MapSet(@, msg.BCN, FlightPlanOf(msg))],
   ev |-> <<>>]

\* Mutant: a cancellation also drops the track entries of the cancelled code.
STARSCancellation_DropsTracks(st, msg) ==
  [st |-> [st EXCEPT
             !.ContainedPlans = MapDel(@, msg.BCN),
             !.TrackInformation =
                [t \in {u \in DOMAIN @ : @[u].FlightPlan.AssignedSquawk # msg.BCN}
                   |-> @[t]]],
   ev |-> <<>>]

\* case Cancellation
STARSCancellation(st, msg) ==
  [st |-> [st EXCEPT !.ContainedPlans = MapDel(@, msg.BCN)], ev |-> <<>>]

\* Mutant: the plan is copied into the track table but stays in the plan table.
STARSInitiateTransfer_KeepsPlan(st, msg) ==
  IF Has(st.ContainedPlans, msg.BCN)
  THEN [st |-> [st EXCEPT
                  !.TrackInformation =
                     MapSet(@, msg.Identifier,
                            Track(msg.TrackOwner, msg.HandoffController,
                                  st.ContainedPlans[msg.BCN]))],
        ev |-> <<Event(TransferAcceptedEvent, msg.Identifier, msg.TrackOwner)>>]
  ELSE [st |-> st,
        ev |-> <<Event(TransferRejectedEvent, msg.Identifier, msg.TrackOwner)>>]

\* Mutant: a transfer for an unknown plan and track is rejected, but a track
\* entry is made for it all the same.
STARSInitiateTransfer_TracksRejected(st, msg) ==
  IF Has(st.ContainedPlans, msg.BCN)
  THEN [st |-> [st EXCEPT
                  !.TrackInformation =
                     MapSet(@, msg.Identifier,
                            Track(msg.TrackOwner, msg.HandoffController,
                                  st.ContainedPlans[msg.BCN])),
                  !.ContainedPlans = MapDel(@, msg.BCN)],
        ev |-> <<Event(TransferAcceptedEvent, msg.Identifier, msg.TrackOwner)>>]
  ELSE [st |-> [st EXCEPT
                  !.TrackInformation =
                     MapSet(@, msg.Identifier,
                            Track(msg.TrackOwner, msg.HandoffController,
                                  FlightPlanOf(msg)))],
        ev |-> <<Event(TransferRejectedEvent, msg.Identifier, msg.TrackOwner)>>]

\* Mutant: a transfer for a track with an entry and no plan in the plan
\* table gives the entry a plan made from the message.
STARSInitiateTransfer_ReplacesPlan(st, msg) ==
  IF Has(st.ContainedPlans, msg.BCN)
  THEN [st |-> [st EXCEPT
                  !.TrackInformation =
                     MapSet(@, msg.Identifier,
                            Track(msg.TrackOwner, msg.HandoffController,
                                  st.ContainedPlans[msg.BCN])),
                  !.ContainedPlans = MapDel(@, msg.BCN)],
        ev |-> <<Event(TransferAcceptedEvent, msg.Identifier, msg.TrackOwner)>>]
  ELSE IF Has(st.TrackInformation, msg.Identifier)
  THEN [st |-> [st EXCEPT
                  !.TrackInformation =
                     MapSet(@, msg.Identifier,
                            Track(msg.TrackOwner, msg.HandoffController,
                                  FlightPlanOf(msg)))],
        ev |-> <<Event(TransferAcceptedEvent, msg.Identifier, msg.TrackOwner)>>]
  ELSE [st |-> st,
        ev |-> <<Event(TransferRejectedEvent, msg.Identifier, msg.TrackOwner)>>]

\* case InitiateTransfer
STARSInitiateTransfer(st, msg) ==

  IF Has(st.ContainedPlans, msg.BCN)
  THEN [st |-> [st EXCEPT
                  !.TrackInformation =
                     MapSet(@, msg.Identifier,
                            Track(msg.TrackOwner, msg.HandoffController,
                                  st.ContainedPlans[msg.BCN])),
                  !.ContainedPlans = MapDel(@, msg.BCN)],
        ev |-> <<Event(TransferAcceptedEvent, msg.Identifier, msg.TrackOwner)>>]
  ELSE IF Has(st.TrackInformation, msg.Identifier)
  THEN [st |-> [st EXCEPT
                  !.TrackInformation =
                     MapSet(@, msg.Identifier,
                            Track(msg.TrackOwner, msg.HandoffController,
                                  st.TrackInformation[msg.Identifier].FlightPlan)),
                  !.ContainedPlans = MapDel(@, msg.BCN)],
        ev |-> <<Event(TransferAcceptedEvent, msg.Identifier, msg.TrackOwner)>>]
  ELSE [st |-> st,
        ev |-> <<Event(TransferRejectedEvent, msg.Identifier, msg.TrackOwner)>>]

\* Mutant: an accept or recall for an unknown identifier makes a track entry.
STARSAcceptRecallTransfer_AdoptsUnknown(st, msg) ==
  IF ~Has(st.TrackInformation, msg.Identifier)
  THEN [st |-> [st EXCEPT
                  !.TrackInformation =
                     MapSet(@, msg.Identifier,
                            Track(msg.TrackOwner, "", FlightPlanOf(msg)))],
        ev |-> <<>>]
  ELSE IF msg.TrackOwner # st.TrackInformation[msg.Identifier].TrackOwner
  THEN [st |-> [st EXCEPT
                  !.TrackInformation[msg.Identifier].TrackOwner = msg.TrackOwner,
                  !.TrackInformation[msg.Identifier].HandoffController = ""],
        ev |-> <<>>]
  ELSE [st |-> [st EXCEPT !.TrackInformation = MapDel(@, msg.Identifier)],
        ev |-> <<>>]

\* Mutant: an accept takes the new owner but leaves the handoff controller.
STARSAcceptRecallTransfer_KeepsHandoff(st, msg) ==
  IF ~Has(st.TrackInformation, msg.Identifier)
  THEN [st |-> st, ev |-> <<>>]
  ELSE IF msg.TrackOwner # st.TrackInformation[msg.Identifier].TrackOwner
  THEN [st |-> [st EXCEPT
                  !.TrackInformation[msg.Identifier].TrackOwner = msg.TrackOwner],
        ev |-> <<>>]
  ELSE [st |-> [st EXCEPT !.TrackInformation = MapDel(@, msg.Identifier)],
        ev |-> <<>>]

\* Mutant: a recall empties the whole track table.
STARSAcceptRecallTransfer_DropsAll(st, msg) ==
  IF ~Has(st.TrackInformation, msg.Identifier)
  THEN [st |-> st, ev |-> <<>>]
  ELSE IF msg.TrackOwner # st.TrackInformation[msg.Identifier].TrackOwner
  THEN [st |-> [st EXCEPT
                  !.TrackInformation[msg.Identifier].TrackOwner = msg.TrackOwner,
                  !.TrackInformation[msg.Identifier].HandoffController = ""],
        ev |-> <<>>]
  ELSE [st |-> [st EXCEPT !.TrackInformation = EmptyMap], ev |-> <<>>]

\* Mutant: an accept handled again is left alone; only a message with the
\* stored owner for an entry that still has a handoff controller is a recall.
STARSAcceptRecallTransfer_Idempotent(st, msg) ==
  IF ~Has(st.TrackInformation, msg.Identifier)
  THEN [st |-> st, ev |-> <<>>]
  ELSE IF msg.TrackOwner # st.TrackInformation[msg.Identifier].TrackOwner
  THEN [st |-> [st EXCEPT
                  !.TrackInformation[msg.Identifier].TrackOwner = msg.TrackOwner,
                  !.TrackInformation[msg.Identifier].HandoffController = ""],
        ev |-> <<>>]
  ELSE IF st.TrackInformation[msg.Identifier].HandoffController = ""
  THEN [st |-> st, ev |-> <<>>]
  ELSE [st |-> [st EXCEPT !.TrackInformation = MapDel(@, msg.Identifier)],
        ev |-> <<>>]

\* case AcceptRecallTransfer
STARSAcceptRecallTransfer(st, msg) ==

  IF ~Has(st.TrackInformation, msg.Identifier)
  THEN [st |-> st, ev |-> <<>>]
  ELSE IF msg.TrackOwner # st.TrackInformation[msg.Identifier].TrackOwner
  THEN [st |-> [st EXCEPT
                  !.TrackInformation[msg.Identifier].TrackOwner = msg.TrackOwner,
                  !.TrackInformation[msg.Identifier].HandoffController = ""],
        ev |-> <<>>]
  ELSE [st |-> [st EXCEPT !.TrackInformation = MapDel(@, msg.Identifier)],
        ev |-> <<>>]

\* The switch on msg.MessageType.
STARSProcess(st, msg) ==
  CASE msg.MessageType = Plan -> STARSPlan(st, msg)
    [] msg.MessageType = Amendment -> STARSAmendment(st, msg)
    [] msg.MessageType = Cancellation -> STARSCancellation(st, msg)
    [] msg.MessageType = InitiateTransfer -> STARSInitiateTransfer(st, msg)
    [] msg.MessageType = AcceptRecallTransfer -> STARSAcceptRecallTransfer(st, msg)
    [] OTHER -> [st |-> st, ev |-> <<>>]

\* clear(s) on a slice: every element becomes the zero value, the length
\* stays.
Clear(msgs) == [i \in 1..Len(msgs) |-> ZeroMessage]


(***************************************************************************)
(* The heap of STARSFlightPlan objects of an enroute computer.             *)
(***************************************************************************)
NilRef == 0
\* A fresh reference.
Alloc(heap) == CHOOSE r \in 1..(Cardinality(DOMAIN heap) + 1) : r \notin DOMAIN heap
\* Objects nothing refers to are dropped (garbage collection).
Collect(ec) ==
  LET live == {ec.FlightPlans[b] : b \in DOMAIN ec.FlightPlans}
              \cup {ec.TrackInformation[t].FlightPlan : t \in DOMAIN ec.TrackInformation}
  IN  [ec EXCEPT !.heap = [r \in (DOMAIN ec.heap) \cap live |-> ec.heap[r]]]
\* comp.FlightPlans[bcn]: nil when the key is absent.
PlanRef(ec, bcn) == IF Has(ec.FlightPlans, bcn) THEN ec.FlightPlans[bcn] ELSE NilRef

Panic(w) == [w EXCEPT !.panic = TRUE]

\* All orders in which a range over a map with key set S may run.
RECURSIVE Perms(_)
Perms(S) ==
  IF S = {} THEN {<<>>}
  ELSE UNION {{<<x>> \o p : p \in Perms(S \ {x})} : x \in S}

\* Mutant: the message is tagged with the clock value 0, not the current one.
FlightPlanDepartureMessage_StaleTag(fp, sendingFacility, simTime) ==
  [ZeroMessage EXCEPT
     !.SourceID = formatSourceID(sendingFacility, 0),
     !.MessageType = Plan,
     !.FlightID = fp.ECID \o fp.Callsign,
     !.BCN = fp.AssignedSquawk,
     !.CoordinationFix = fp.Exit,
     !.Altitude = IF fp.Rules = "VFR" THEN "VFR/0" ELSE "0",
     !.Route = fp.Route]

\* FlightPlanDepartureMessage(fp.FlightPlan, sendingFacility, simTime)
FlightPlanDepartureMessage(fp, sendingFacility, simTime) ==
  [ZeroMessage EXCEPT
     !.SourceID = formatSourceID(sendingFacility, simTime),
     !.MessageType = Plan,
     !.FlightID = fp.ECID \o fp.Callsign,
     !.BCN = fp.AssignedSquawk,
     !.CoordinationFix = fp.Exit,
     \* "VFR/" or "", then strconv.Itoa of av.FlightPlan.Altitude, which the
     \* conversion from a message leaves 0
     !.Altitude = IF fp.Rules = "VFR" THEN "VFR/0" ELSE "0",
     !.Route = fp.Route]

(***************************************************************************)
(* ERAMComputer.SortMessages: the handling of one message by computer e in *)
(* world w.  Each operator gives the set of worlds the handling can end    *)
(* in (several when the result depends on the order of a range over a      *)
(* map); a world with panic set is the state in which the program died.    *)
(***************************************************************************)
\* A Plan handler that overwrites the object stored under the code, when
\* there is one, instead of storing a new object.
ERAMPlan_InPlace(w, e, msg) ==
  LET fp == FlightPlanOf(msg)
      ec == w.eram[e]
      r == IF Has(ec.FlightPlans, msg.BCN) THEN ec.FlightPlans[msg.BCN]
           ELSE Alloc(ec.heap)
      derived == FixForRouteAndAltitude(e, fp.Route, fp.Altitude)
      fp2 == IF fp.CoordinationFix = ""
             THEN [fp EXCEPT !.CoordinationFix = derived.name] ELSE fp
      ec2 == Collect([ec EXCEPT !.FlightPlans = MapSet(@, msg.BCN, r),
                                !.heap = MapSet(@, r, fp2)])
      w2 == [w EXCEPT !.eram[e] = ec2]
      af == AdaptationFixForAltitude(e, fp2.CoordinationFix, fp2.Altitude)
  IN  IF fp.AssignedSquawk = 0 THEN {Panic(w)}
      ELSE IF fp.CoordinationFix = "" /\ ~derived.ok THEN {w2}
      ELSE IF af.ok /\ af.fix.ToFacility # e
      THEN {ToSTARSFacility(w2, e, af.fix.ToFacility, msg).w}
      ELSE {w2}

\* case Plan
ERAMPlan(w, e, msg) ==
  LET fp == FlightPlanOf(msg)
      ec == w.eram[e]
      r == Alloc(ec.heap)
      derived == FixForRouteAndAltitude(e, fp.Route, fp.Altitude)
      fp2 == IF fp.CoordinationFix = ""
             THEN [fp EXCEPT !.CoordinationFix = derived.name] ELSE fp
      ec2 == Collect([ec EXCEPT !.FlightPlans = MapSet(@, msg.BCN, r),
                                !.heap = MapSet(@, r, fp2)])
      w2 == [w EXCEPT !.eram[e] = ec2]
      af == AdaptationFixForAltitude(e, fp2.CoordinationFix, fp2.Altitude)
  IN  IF fp.AssignedSquawk = 0 THEN {Panic(w)}
      ELSE IF fp.CoordinationFix = "" /\ ~derived.ok THEN {w2}
      ELSE IF af.ok /\ af.fix.ToFacility # e
      THEN {ToSTARSFacility(w2, e, af.fix.ToFacility, msg).w}
      ELSE {w2}

\* case RequestFlightPlan
ERAMRequestFlightPlan(w, e, msg, simTime) ==
  LET ec == w.eram[e]
      facility == SubSeq(msg.SourceID, 1, 3)
      w2 == IF Has(ec.FlightPlans, msg.BCN)
            THEN ToSTARSFacility(w, e, facility,
                   FlightPlanDepartureMessage(ec.heap[ec.FlightPlans[msg.BCN]],
                                              e, simTime)).w
            ELSE w
  IN  IF Len(msg.SourceID) < 3 THEN {Panic(w)}
      ELSE IF Len(w2.eram[e].ReceivedMessages) = 0 THEN {Panic(w2)}
      ELSE {[w2 EXCEPT !.eram[e].ReceivedMessages = Tail(@)]}

\* One iteration, for the coordination fix `name`, of the loop over
\* comp.Adaptation.CoordinationFixes in case InitiateTransfer.  The loop
\* state is [w, msg]: the world and the local copy of the message.
ERAMInitiateTransferFix(lp, e, name, simTime) ==
  LET w == lp.w
      msg == lp.msg
      ec == w.eram[e]
      tr == ec.TrackInformation[msg.Identifier]
      fx == Fix(CoordinationFixes(e)[name], ec.heap[tr.FlightPlan].Altitude)
      to == fx.fix.ToFacility
      stamped == [msg EXCEPT !.SourceID = formatSourceID(e, simTime)]
  IN  IF w.panic THEN lp
      ELSE IF tr.FlightPlan = NilRef THEN [w |-> Panic(w), msg |-> msg]
      ELSE IF ~fx.ok THEN lp
      ELSE IF name = msg.CoordinationFix /\ to # e
      THEN [w |-> IF Len(to) > 0 /\ to[1] = "Z"
                  THEN SendMessageToERAM(w, e, to, stamped).w
                  ELSE ToSTARSFacility(w, e, to, stamped).w,
            msg |-> stamped]
      ELSE IF name = msg.CoordinationFix /\ to = e
      THEN [w |-> [w EXCEPT !.eram[e] =
                     Collect([ec EXCEPT !.TrackInformation =
                        MapSet(@, msg.Identifier,
                               Track(msg.TrackOwner, msg.HandoffController,
                                     PlanRef(ec, msg.BCN)))])],
            msg |-> msg]
      ELSE lp

RECURSIVE ERAMInitiateTransferLoop(_, _, _, _)
ERAMInitiateTransferLoop(lp, e, names, simTime) ==
  IF names = <<>> THEN lp
  ELSE ERAMInitiateTransferLoop(ERAMInitiateTransferFix(lp, e, Head(names), simTime),
                                e, Tail(names), simTime)

\* Mutant: every code ever handed out comes back with the released one.
ReleaseSquawk_All(pool, bcn) == pool \cup {bcn} \cup (NASLow..(NASLow + 1))

\* comp.AvailableSquawks[msg.BCN] = nil
ReleaseSquawk(pool, bcn) == pool \cup {bcn}


\* Mutant: the code is not put back into the pool.
ERAMInitiateTransfer_KeepsCode(w, e, msg, simTime) ==
  LET ec == w.eram[e]
      tracks == IF Has(ec.TrackInformation, msg.Identifier)
                THEN ec.TrackInformation
                ELSE MapSet(ec.TrackInformation, msg.Identifier,
                            Track("", "", PlanRef(ec, msg.BCN)))
      ec2 == [ec EXCEPT
                !.TrackInformation =
                   [tracks EXCEPT ![msg.Identifier].TrackOwner = msg.TrackOwner,
                                  ![msg.Identifier].HandoffController =
                                     msg.HandoffController]]
      w2 == [w EXCEPT !.eram[e] = ec2]
  IN  {ERAMInitiateTransferLoop([w |-> w2, msg |-> msg], e, order, simTime).w :
         order \in Perms(DOMAIN CoordinationFixes(e))}

\* case InitiateTransfer
ERAMInitiateTransfer(w, e, msg, simTime) ==

  LET ec == w.eram[e]
      tracks == IF Has(ec.TrackInformation, msg.Identifier)
                THEN ec.TrackInformation
                ELSE MapSet(ec.TrackInformation, msg.Identifier,
                            Track("", "", PlanRef(ec, msg.BCN)))
      ec2 == [ec EXCEPT
                !.TrackInformation =
                   [tracks EXCEPT ![msg.Identifier].TrackOwner = msg.TrackOwner,
                                  ![msg.Identifier].HandoffController =
                                     msg.HandoffController],
                !.AvailableSquawks = ReleaseSquawk(@, msg.BCN)]
      w2 == [w EXCEPT !.eram[e] = ec2]
  IN  {ERAMInitiateTransferLoop([w |-> w2, msg |-> msg], e, order, simTime).w :
         order \in Perms(DOMAIN CoordinationFixes(e))}

\* case AcceptRecallTransfer
ERAMAcceptRecallTransfer(w, e, msg) ==
  LET ec == w.eram[e]
      known == Has(ec.TrackInformation, msg.Identifier)
      info == ec.TrackInformation[msg.Identifier]
      ec2 == IF known
             THEN [ec EXCEPT
                     !.AvailableSquawks =
                        IF msg.TrackOwner = info.TrackOwner
                        THEN ReleaseSquawk(@, msg.BCN) ELSE @,
                     !.TrackInformation[msg.Identifier].TrackOwner = msg.TrackOwner]
             ELSE ec
      w2 == [w EXCEPT !.eram[e] = ec2]
      fx == Fix(CoordinationFixes(e)[msg.CoordinationFix],
                ec.heap[info.FlightPlan].Altitude)
  IN  IF ~Has(CoordinationFixes(e), msg.CoordinationFix) THEN {w}
      ELSE IF ~known THEN {Panic(w2)}
      ELSE IF info.FlightPlan = NilRef THEN {Panic(w2)}
      ELSE IF fx.ok /\ fx.fix.FromFacility # e
      THEN {SendMessageToERAM(w2, e, fx.fix.FromFacility, msg).w}
      ELSE {w2}

\* The switch on msg.MessageType.
ERAMProcess(w, e, msg, simTime) ==
  CASE msg.MessageType = Plan -> ERAMPlan(w, e, msg)
    [] msg.MessageType = RequestFlightPlan -> ERAMRequestFlightPlan(w, e, msg, simTime)
    [] msg.MessageType = InitiateTransfer -> ERAMInitiateTransfer(w, e, msg, simTime)
    [] msg.MessageType = AcceptRecallTransfer -> ERAMAcceptRecallTransfer(w, e, msg)
    [] OTHER -> {w}


(***************************************************************************)
(* The lookahead push.                                                     *)
(***************************************************************************)
\* ERAMComputer.SendFlightPlan, for the plan object at reference r.
SendFlightPlan(w, e, r, tracon, simTime) ==
  LET fp == w.eram[e].heap[r]
      msg == [MessageOf(fp) EXCEPT !.MessageType = Plan,
                                   !.SourceID = formatSourceID(e, simTime)]
      af == AdaptationFixForAltitude(e, fp.CoordinationFix, fp.Altitude)
      first == ToSTARSFacility(w, e, tracon, msg)
      sent == IF first.err # ""
              THEN SendMessageToERAM(w, e, TRACON_ARTCC[tracon], msg).w
              ELSE first.w
  IN  IF ~af.ok THEN w
      ELSE [sent EXCEPT !.eram[e].heap[r].ContainedFacilities =
                           Append(@, af.fix.ToFacility)]

\* Mutant: a plan is sent whatever the time is.
sendPlanIfReady_NoWindow(w, e, r, tracon, simTime) ==
  LET fp == w.eram[e].heap[r]
      af == AdaptationFixForAltitude(e, fp.CoordinationFix, fp.Altitude)
  IN  IF ~af.ok THEN w
      ELSE IF \E i \in 1..Len(fp.ContainedFacilities) :
                 fp.ContainedFacilities[i] = af.fix.ToFacility
      THEN w
      ELSE SendFlightPlan(w, e, r, tracon, simTime)

\* sendPlanIfReady
sendPlanIfReady(w, e, r, tracon, simTime) ==
  LET fp == w.eram[e].heap[r]
      af == AdaptationFixForAltitude(e, fp.CoordinationFix, fp.Altitude)
  IN  IF simTime + TransmitFPMessageTime < fp.CoordinationTime.Time THEN w
      ELSE IF ~af.ok THEN w
      ELSE IF \E i \in 1..Len(fp.ContainedFacilities) :
                 fp.ContainedFacilities[i] = af.fix.ToFacility
      THEN w
      ELSE SendFlightPlan(w, e, r, tracon, simTime)

\* The loop over comp.TrackInformation, in the order `ids`.  An entry
\* deleted before the loop reaches it is not visited.
RECURSIVE SendTrackPlans(_, _, _, _, _)
SendTrackPlans(w, e, ids, tracon, simTime) ==
  IF ids = <<>> THEN w
  ELSE LET ec == w.eram[e]
           id == Head(ids)
           info == ec.TrackInformation[id]
           fp == ec.heap[info.FlightPlan]
           w2 == IF ~Has(ec.TrackInformation, id) THEN w
                 ELSE IF info.FlightPlan = NilRef THEN w
                 ELSE IF fp.Callsign = <<>> /\ fp.Altitude = ""
                 THEN [w EXCEPT !.eram[e] =
                         Collect([ec EXCEPT !.TrackInformation =
                                    MapDel(@, info.Identifier)])]
                 ELSE sendPlanIfReady(w, e, info.FlightPlan, tracon, simTime)
       IN  SendTrackPlans(w2, e, Tail(ids), tracon, simTime)

\* The loop over comp.FlightPlans, in the order `bcns`.
RECURSIVE SendTablePlans(_, _, _, _, _)
SendTablePlans(w, e, bcns, tracon, simTime) ==
  IF bcns = <<>> THEN w
  ELSE SendTablePlans(
         sendPlanIfReady(w, e, w.eram[e].FlightPlans[Head(bcns)], tracon, simTime),
         e, Tail(bcns), tracon, simTime)

\* ERAMComputer.SendFlightPlans: the worlds it can end in.
SendFlightPlans(w, e, tracon, simTime) ==
  {SendTablePlans(SendTrackPlans(w, e, ids, tracon, simTime), e, bcns, tracon, simTime) :
     ids \in Perms(DOMAIN w.eram[e].TrackInformation),
     bcns \in Perms(DOMAIN w.eram[e].FlightPlans)}

(***************************************************************************)
(* ERAMComputers.UpdateComputers and the calls it makes.  pc.erams are the *)
(* enroute computers the outer loop has yet to visit, pc.starsLeft the     *)
(* terminal computers of the current one that the inner loop has yet to    *)
(* visit; both loops range over maps, so any order is possible.            *)
(***************************************************************************)
\* for _, msg := range *comp.ReceivedMessages: the range expression is
\* evaluated once, when the loop starts.
BeginSortMessages(p, e) ==
  [p EXCEPT !.op = "SortMessages", !.comp = e,
            !.batch = eram[e].ReceivedMessages, !.i = 1,
            !.erams = p.erams \ {e}, !.starsLeft = STARSComputers(e)]

BeginSortReceivedMessages(p, s, st) ==
  [p EXCEPT !.op = "SortReceivedMessages", !.comp = s,
            !.batch = st[s].ReceivedMessages, !.i = 1,
            !.starsLeft = p.starsLeft \ {s}]

Commit(w) ==
  /\ eram' = w.eram
  /\ stars' = w.stars
  /\ events' = w.events

\* UpdateComputers(tracon, simTime, e) is called: the outer loop starts with
\* some enroute computer.
UpdateComputers(tracon, simTime) ==
  /\ pc.op = "idle"
  /\ \E e \in ARTCCs :
       /\ pc' = BeginSortMessages([Idle EXCEPT !.erams = ARTCCs, !.tracon = tracon,
                                               !.simTime = simTime], e)
       /\ eram' = [eram EXCEPT ![e].Fresh = 0]
  /\ events' = <<>>
  /\ ret' = NoRet
  /\ UNCHANGED <<stars, bank, issued>>

\* One iteration of the loop of SortMessages.
SortMessagesStep ==
  /\ pc.op = "SortMessages"
  /\ pc.i <= Len(pc.batch)
  /\ \E w \in ERAMProcess(World, pc.comp, pc.batch[pc.i], pc.simTime) :
       /\ Commit(w)
       /\ pc' = IF w.panic THEN [pc EXCEPT !.op = "panic"]
                ELSE [pc EXCEPT !.i = @ + 1]
  /\ ret' = NoRet
  /\ UNCHANGED <<bank, issued>>

\* The loop of SortMessages is over: clear(*comp.ReceivedMessages), return,
\* and UpdateComputers goes on to comp.SendFlightPlans.
SortMessagesReturn ==
  /\ pc.op = "SortMessages"
  /\ pc.i > Len(pc.batch)
  /\ eram' = [eram EXCEPT ![pc.comp].ReceivedMessages = Clear(@)]
  /\ pc' = [pc EXCEPT !.op = "SendFlightPlans", !.batch = <<>>, !.i = 0]
  /\ ret' = NoRet
  /\ UNCHANGED <<stars, bank, events, issued>>

\* What UpdateComputers does next once a terminal computer's drain, or the
\* SendFlightPlans of a computer without terminal computers, has returned.
NextCall(p, er, st) ==
  IF p.starsLeft # {}
  THEN {BeginSortReceivedMessages(p, s, st) : s \in p.starsLeft}
  ELSE IF p.erams # {}
  THEN {[p EXCEPT !.op = "SortMessages", !.comp = e,
                  !.batch = er[e].ReceivedMessages, !.i = 1,
                  !.erams = p.erams \ {e}, !.starsLeft = STARSComputers(e)] :
          e \in p.erams}
  ELSE {Idle}

\* The Fresh counter of the computer whose drain starts is reset.
TakeBatch(w, p) ==
  IF p.op = "SortMessages" THEN [w EXCEPT !.eram[p.comp].Fresh = 0]
  ELSE IF p.op = "SortReceivedMessages" THEN [w EXCEPT !.stars[p.comp].Fresh = 0]
  ELSE w

\* comp.SendFlightPlans(tracon, simTime), then the next call.
SendFlightPlansCall ==
  /\ pc.op = "SendFlightPlans"
  /\ \E w \in SendFlightPlans(World, pc.comp, pc.tracon, pc.simTime) :
       \E p \in NextCall(pc, w.eram, w.stars) :
         /\ Commit(TakeBatch(w, p))
         /\ pc' = p
  /\ ret' = NoRet
  /\ UNCHANGED <<bank, issued>>

\* One iteration of the loop of SortReceivedMessages.
SortReceivedMessagesStep ==
  /\ pc.op = "SortReceivedMessages"
  /\ pc.i <= Len(pc.batch)
  /\ LET r == STARSProcess(stars[pc.comp], pc.batch[pc.i])
     IN  /\ stars' = [stars EXCEPT ![pc.comp] = r.st]
         /\ events' = events \o r.ev
  /\ pc' = [pc EXCEPT !.i = @ + 1]
  /\ ret' = NoRet
  /\ UNCHANGED <<eram, bank, issued>>

\* The loop of SortReceivedMessages is over: clear(comp.ReceivedMessages),
\* return, and UpdateComputers goes on to the next computer or returns.
SortReceivedMessagesReturn ==
  /\ pc.op = "SortReceivedMessages"
  /\ pc.i > Len(pc.batch)
  /\ LET w == [World EXCEPT !.stars[pc.comp].ReceivedMessages = Clear(@)]
     IN  \E p \in NextCall([pc EXCEPT !.batch = <<>>, !.i = 0], w.eram, w.stars) :
           /\ Commit(TakeBatch(w, p))
           /\ pc' = p
  /\ ret' = NoRet
  /\ UNCHANGED <<bank, issued>>


(***************************************************************************)
(* Calls from the simulation, between two ticks.                           *)
(***************************************************************************)
RoomSTARS(s) ==
  s \in TRACONs => /\ Len(stars[s].ReceivedMessages) < MaxInbox
                   /\ stars[s].Fresh < MaxBatch
RoomERAM(e) ==
  e \in ARTCCs => /\ Len(eram[e].ReceivedMessages) < MaxInbox
                  /\ eram[e].Fresh < MaxBatch

\* comp.ToSTARSFacility(facility, msg) on enroute computer e
CallToSTARSFacility(e, facility, msg) ==
  /\ pc.op = "idle"
  /\ RoomSTARS(facility)
  /\ LET r == ToSTARSFacility(World, e, facility, msg)
     IN  /\ Commit(r.w)
         /\ ret' = RetDelivery("ToSTARSFacility", e, facility, msg, r.err)
  /\ UNCHANGED <<bank, pc, issued>>

\* comp.SendMessageToERAM(facility, msg) on enroute computer e
CallSendMessageToERAM(e, facility, msg) ==
  /\ pc.op = "idle"
  /\ RoomERAM(facility)
  /\ LET r == SendMessageToERAM(World, e, facility, msg)
     IN  /\ Commit(r.w)
         /\ ret' = RetDelivery("SendMessageToERAM", e, facility, msg, r.err)
  /\ UNCHANGED <<bank, pc, issued>>

\* comp.SendToOverlyingERAMFacility(msg) on terminal computer s
CallSendToOverlyingERAMFacility(s, msg) ==
  /\ pc.op = "idle"
  /\ RoomERAM(TRACON_ARTCC[s])
  /\ Commit(SendToOverlyingERAMFacility(World, s, msg))
  /\ ret' = RetDelivery("SendToOverlyingERAMFacility", s, TRACON_ARTCC[s], msg, "")
  /\ UNCHANGED <<bank, pc, issued>>

\* comp.SendTrackInfo(receivingFacility, msg, simTime) on terminal computer
\* s: ret.to and ret.msg are the facility and the message passed, ret.out
\* the clock value passed.
CallSendTrackInfo(s, receivingFacility, msg, simTime) ==
  /\ pc.op = "idle"
  /\ RoomSTARS(receivingFacility)
  /\ RoomERAM(TRACON_ARTCC[s])
  /\ Commit(SendTrackInfo(World, s, receivingFacility, msg, simTime))
  /\ ret' = [RetDelivery("SendTrackInfo", s, receivingFacility, msg, "") EXCEPT
               !.out = simTime]

  /\ UNCHANGED <<bank, pc, issued>>

\* comp.RequestFlightPlan(bcn, simTime) on terminal computer s: ret.code is
\* the code passed and ret.out the clock value passed.
CallRequestFlightPlan(s, bcn, simTime) ==
  /\ pc.op = "idle"
  /\ RoomERAM(TRACON_ARTCC[s])
  /\ Commit(STARSRequestFlightPlan(World, s, bcn, simTime))
  /\ ret' = [Ret("RequestFlightPlan", s, bcn, "") EXCEPT !.out = simTime]
  /\ UNCHANGED <<bank, pc, issued>>

\* ec.FacilityComputers(fac): ret.to is the id passed, ret.out the result.
CallFacilityComputers(fac) ==
  /\ pc.op = "idle"
  /\ LET r == FacilityComputers(fac)
     IN  /\ ~r.panic
         /\ ret' = [Ret("FacilityComputers", NilComputer, 0, r.err) EXCEPT
                      !.to = fac, !.out = [eram |-> r.eram, stars |-> r.stars]]
  /\ UNCHANGED <<eram, stars, bank, events, pc, issued>>

(***************************************************************************)
(* Inputs.                                                                 *)
(***************************************************************************)
SimTimes == {0, 30}
FlightID1 == <<"0", "0", "1", "A">>

TrackMsg(type, bcn, id, owner, handoff, fix) ==
  [ZeroMessage EXCEPT !.MessageType = type, !.BCN = bcn, !.Identifier = id,
                      !.TrackOwner = owner, !.HandoffController = handoff,
                      !.CoordinationFix = fix,
                      !.SourceID = formatSourceID(ZBW, 0)]
PlanMsg(type, bcn, fix, alt, time) ==
  [ZeroMessage EXCEPT !.MessageType = type, !.BCN = bcn, !.FlightID = FlightID1,
                      !.CoordinationFix = fix, !.Altitude = alt,
                      !.CoordinationTime = [Time |-> time, Type |-> "A"],
                      !.SourceID = formatSourceID(ZBW, 0)]

\* Messages delivered to terminal computers.
STARSInputs ==
  {PlanMsg(Plan, NASLow, "CAMRN", "110", 45),
   TrackMsg(InitiateTransfer, NASLow, "AAL1", "A", "B", "CAMRN"),
   TrackMsg(InitiateTransfer, NASLow, "UAL2", "A", "", "CAMRN"),
   TrackMsg(InitiateTransfer, NASLow, "AAL1", "C", "D", "CAMRN"),

   TrackMsg(AcceptRecallTransfer, NASLow, "AAL1", "B", "", "CAMRN"),
   TrackMsg(AcceptRecallTransfer, NASLow, "AAL1", "A", "", "CAMRN")}

\* Messages delivered to enroute computers.
ERAMInputs ==
  {PlanMsg(Plan, NASLow, "HOME", "110", 45),
   PlanMsg(Plan, 0, "HOME", "110", 45),
   TrackMsg(InitiateTransfer, NASLow, "AAL1", "A", "B", "HOME"),
   TrackMsg(AcceptRecallTransfer, NASLow, "AAL1", "A", "", "HOME")}

(***************************************************************************)
(* Specifications.                                                         *)
(***************************************************************************)
Tick ==
  \/ UpdateComputers(N90, 0)
  \/ SortMessagesStep
  \/ SortMessagesReturn
  \/ SendFlightPlansCall
  \/ SortReceivedMessagesStep
  \/ SortReceivedMessagesReturn

\* The enroute computers with the beacon code pools of all computers.
Next ==
  \/ ERAMCreateSquawk(ZNY)
  \/ \E s \in {N90} : STARSCreateSquawk(s)
  \/ \E m \in ERAMInputs : CallSendMessageToERAM(ZBW, ZNY, m)
  \/ \E b \in {NASLow} : CallRequestFlightPlan(N90, b, 0)
  \/ Tick

Spec == Init /\ [][Next]_vars

\* A terminal computer and the messages delivered to it.
TickSTARS ==
  \/ UpdateComputers(N90, 0)
  \/ SortMessagesReturn
  \/ SendFlightPlansCall
  \/ SortReceivedMessagesStep
  \/ SortReceivedMessagesReturn

NextSTARS ==
  \/ \E m \in STARSInputs : CallToSTARSFacility(ZNY, N90, m)
  \/ TickSTARS

SpecSTARS == Init /\ [][NextSTARS]_vars

\* A terminal computer with all its operations, handling plans,
\* cancellations, accepts and recalls; the transfers are initiated by
\* another terminal computer.
TerminalInputs ==
  {PlanMsg(Plan, NASLow, "CAMRN", "110", 45),
   PlanMsg(Cancellation, NASLow, "", "", 0),
   TrackMsg(AcceptRecallTransfer, NASLow, "AAL1", "B", "", "CAMRN"),
   TrackMsg(AcceptRecallTransfer, NASLow, "AAL1", "A", "", "CAMRN")}

NextTerminal ==
  \/ \E m \in TerminalInputs : CallToSTARSFacility(ZNY, N90, m)
  \/ \E s \in {N90} : STARSCreateSquawk(s)
  \/ \E b \in {NASLow} : CallRequestFlightPlan(N90, b, 0)
  \/ CallSendTrackInfo(PHL, N90,
                       TrackMsg(InitiateTransfer, NASLow, "AAL1", "A", "B", "CAMRN"), 0)
  \/ Tick

SpecTerminal == Init /\ [][NextTerminal]_vars

\* A terminal computer and the plan messages delivered to it, for two
\* codes and for code 0.
PlanInputs ==
  {PlanMsg(Plan, NASLow, "CAMRN", "110", 45),
   PlanMsg(Plan, NASLow + 1, "CAMRN", "110", 45),
   PlanMsg(Plan, 0, "CAMRN", "110", 45),
   PlanMsg(Amendment, NASLow, "CAMRN", "250", 45),
   PlanMsg(Amendment, 0, "CAMRN", "250", 45),
   PlanMsg(Cancellation, NASLow, "", "", 0)}

NextPlans ==
  \/ \E m \in PlanInputs : CallToSTARSFacility(ZNY, N90, m)
  \/ TickSTARS

SpecPlans == Init /\ [][NextPlans]_vars

\* An enroute computer, the plans and transfers delivered to it, and ticks
\* at two clock values: plans for an owned terminal facility, for a terminal
\* facility of another centre and for another centre, with a coordination
\* time within the lookahead window of the second clock value or of both.
PushInputs ==
  {PlanMsg(Plan, NASLow, "CAMRN", "110", 45),
   PlanMsg(Plan, NASLow + 1, "DIXIE", "110", 30),
   PlanMsg(Plan, NASLow + 1, "CAMRN", "250", 45),
   TrackMsg(InitiateTransfer, NASLow, "AAL1", "A", "B", "CAMRN")}

\* comp.SendMessageToERAM(ZNY, msg) on enroute computer ZBW
PushDeliver(msg) ==
  /\ pc.op = "idle"
  /\ Len(eram[ZNY].ReceivedMessages) < MaxPush
  /\ LET r == SendMessageToERAM(World, ZBW, ZNY, msg)
     IN  /\ Commit(r.w)
         /\ ret' = Ret("SendMessageToERAM", ZBW, 0, r.err)
  /\ UNCHANGED <<bank, pc, issued>>

NextPush ==
  \/ \E m \in PushInputs : PushDeliver(m)
  \/ \E t \in SimTimes : UpdateComputers(N90, t)
  \/ SortMessagesStep
  \/ SortMessagesReturn
  \/ SendFlightPlansCall
  \/ SortReceivedMessagesStep
  \/ SortReceivedMessagesReturn

SpecPush == Init /\ [][NextPush]_vars

\* Ticks for the TRACON A90, which ZNY does not own: the push of ZNY goes
\* to the mailbox of ZBW.
NextRelay ==
  \/ \E m \in PushInputs : PushDeliver(m)
  \/ UpdateComputers(A90, TransmitFPMessageTime)
  \/ SortMessagesStep
  \/ SortMessagesReturn
  \/ SendFlightPlansCall
  \/ SortReceivedMessagesStep
  \/ SortReceivedMessagesReturn

SpecRelay == Init /\ [][NextRelay]_vars

\* Plan messages at an enroute computer: with a fix that resolves to a
\* terminal computer of ZNY, to ZNY itself, to a terminal computer of ZBW,
\* or not at all; without a fix, with a route that gives one and with a
\* route that gives none; with code 0; and a transfer that attaches a plan
\* to a track.
EnrouteInputs ==
  {PlanMsg(Plan, NASLow, "CAMRN", "110", 45),
   PlanMsg(Plan, NASLow, "HOME", "110", 45),
   PlanMsg(Plan, NASLow + 1, "DIXIE", "110", 45),
   PlanMsg(Plan, NASLow + 1, "DIXIE", "250", 45),
   [PlanMsg(Plan, NASLow + 1, "", "110", 45) EXCEPT !.Route = <<"CAMRN">>],
   PlanMsg(Plan, NASLow + 1, "", "110", 45),
   PlanMsg(Plan, 0, "CAMRN", "110", 45),
   TrackMsg(InitiateTransfer, NASLow, "AAL1", "A", "B", "CAMRN")}

NextEnroute ==
  \/ \E m \in EnrouteInputs : PushDeliver(m)
  \/ Tick

SpecEnroute == Init /\ [][NextEnroute]_vars

\* An enroute computer, its pool, and messages with the VFR code and with
\* code 0.
ReservedInputs ==
  {PlanMsg(Plan, VFRCode, "CAMRN", "110", 45),
   TrackMsg(InitiateTransfer, VFRCode, "AAL1", "A", "B", "CAMRN"),
   TrackMsg(InitiateTransfer, 0, "AAL1", "A", "B", "CAMRN")}

NextReserved ==
  \/ ERAMCreateSquawk(ZNY)
  \/ \E m \in ReservedInputs : CallSendMessageToERAM(ZBW, ZNY, m)
  \/ Tick

SpecReserved == Init /\ [][NextReserved]_vars

\* The delivery calls, with facility ids the caller knows and ids it does
\* not know, between ticks that fill the tables.
DeliverInputs ==
  {PlanMsg(Plan, NASLow, "HOME", "110", 45),
   PlanMsg(Plan, NASLow + 1, "HOME", "110", 45)}
\* Facility ids passed to ToSTARSFacility and to SendMessageToERAM: the
\* first of each is one the caller knows.
STARSTargets == {N90, A90, ZNY}
ERAMTargets == {ZBW, ZNY, N90}

\* The length of the mailbox of computer c.
Queued(c) ==
  IF c \in ARTCCs THEN Len(eram[c].ReceivedMessages)
  ELSE Len(stars[c].ReceivedMessages)

NextDeliver ==
  \/ \E f \in STARSTargets : \E m \in DeliverInputs :
       Queued(f) <= MaxQueued /\ CallToSTARSFacility(ZNY, f, m)
  \/ \E f \in ERAMTargets : \E m \in DeliverInputs :
       Queued(f) <= MaxQueued /\ CallSendMessageToERAM(ZNY, f, m)
  \/ \E s \in {A90} : \E m \in DeliverInputs :
       Queued(TRACON_ARTCC[s]) <= MaxQueued /\ CallSendToOverlyingERAMFacility(s, m)
  \/ Tick

SpecDeliver == Init /\ [][NextDeliver]_vars

\* The facility lookup, between deliveries and ticks that fill the mailbox
\* and the tables of N90.  XXX and the empty id name no facility.
FacilityIds == ARTCCs \cup TRACONs \cup {<<"X", "X", "X">>, <<>>}

NextFacility ==
  \/ \E fac \in FacilityIds : CallFacilityComputers(fac)
  \/ \E m \in DeliverInputs : CallToSTARSFacility(ZNY, N90, m)
  \/ TickSTARS

SpecFacility == Init /\ [][NextFacility]_vars

\* Requests for a flight plan by the terminal computers, plans delivered to
\* ZNY, and ticks in which the enroute computers answer.
\* The requests made: <<terminal computer, code, clock value>>.
RequestInputs == {<<N90, NASLow, 0>>, <<N90, NASLow + 1, 0>>, <<A90, NASLow, 30>>}

NextRequest ==
  \/ \E r \in RequestInputs :
       Queued(TRACON_ARTCC[r[1]]) <= MaxQueued /\ CallRequestFlightPlan(r[1], r[2], r[3])
  \/ \E m \in {PlanMsg(Plan, NASLow, "HOME", "110", 45)} :
       Queued(ZNY) <= MaxQueued /\ CallSendMessageToERAM(ZBW, ZNY, m)
  \/ UpdateComputers(N90, TransmitFPMessageTime)
  \/ SortMessagesStep
  \/ SortMessagesReturn
  \/ SendFlightPlansCall
  \/ SortReceivedMessagesStep
  \/ SortReceivedMessagesReturn

SpecRequest == Init /\ [][NextRequest]_vars

\* A request of N90 for one code and the plan for it delivered to ZNY, with
\* ticks that go on for as long as the program runs.
NextAsk ==
  \/ CallRequestFlightPlan(N90, NASLow, 0)
  \/ \E m \in {PlanMsg(Plan, NASLow, "HOME", "110", 45)} :
       CallSendMessageToERAM(ZBW, ZNY, m)
  \/ Tick

SpecAsk == Init /\ [][NextAsk]_vars /\ WF_vars(Tick)

\* Transfers at an enroute computer: two plans delivered to ZNY, one below
\* and one above 200, and transfers and accepts for their tracks with fixes
\* that resolve to an owned terminal facility (CAMRN at 110), to a peer
\* centre (CAMRN at 250), to a terminal facility of the peer (DIXIE at 110),
\* to ZNY itself (HOME) and not at all (DIXIE at 250, NOPE).  The origins
\* of the fixes are the peer centre (CAMRN at 110), ZNY itself (HOME) and
\* the terminal facility N90 (DIXIE at 110).

TransferInputs ==
  {PlanMsg(Plan, NASLow, "CAMRN", "110", 45),
   PlanMsg(Plan, NASLow + 1, "CAMRN", "250", 45),
   TrackMsg(InitiateTransfer, NASLow, "AAL1", "A", "B", "CAMRN"),
   TrackMsg(InitiateTransfer, NASLow, "AAL1", "C", "", "HOME"),
   TrackMsg(InitiateTransfer, NASLow, "AAL1", "A", "B", "DIXIE"),
   TrackMsg(InitiateTransfer, NASLow, "AAL1", "C", "D", "NOPE"),
   TrackMsg(InitiateTransfer, NASLow + 1, "UAL2", "A", "B", "CAMRN"),
   TrackMsg(AcceptRecallTransfer, NASLow, "AAL1", "A", "", "CAMRN"),
   TrackMsg(AcceptRecallTransfer, NASLow, "AAL1", "C", "", "HOME"),
   TrackMsg(AcceptRecallTransfer, NASLow, "AAL1", "C", "", "DIXIE"),

   TrackMsg(AcceptRecallTransfer, NASLow + 1, "UAL2", "A", "", "DIXIE"),
   TrackMsg(AcceptRecallTransfer, NASLow, "AAL1", "A", "", "NOPE")}

NextTransfer ==
  \/ Queued(ZNY) = 0 /\ ERAMCreateSquawk(ZNY)

  \/ \E m \in TransferInputs : PushDeliver(m)

  \/ UpdateComputers(N90, TransmitFPMessageTime)
  \/ SortMessagesStep
  \/ SortMessagesReturn
  \/ SendFlightPlansCall
  \/ SortReceivedMessagesStep
  \/ SortReceivedMessagesReturn

SpecTransfer == Init /\ [][NextTransfer]_vars

\* The pool of an enroute computer: codes drawn from ZNY's pool, then a
\* plan, a transfer, a recall and accepts for its track, the messages
\* without a handler and a request delivered to ZNY, and ticks with a push.
ReleaseInputs ==
  {PlanMsg(Plan, NASLow, "CAMRN", "110", 45),
   TrackMsg(InitiateTransfer, NASLow, "AAL1", "A", "B", "CAMRN"),
   TrackMsg(AcceptRecallTransfer, NASLow + 1, "AAL1", "A", "", "CAMRN"),
   TrackMsg(AcceptRecallTransfer, NASLow + 1, "AAL1", "C", "", "CAMRN"),
   TrackMsg(AcceptRecallTransfer, NASLow + 1, "AAL1", "C", "", "NOPE"),
   TrackMsg(DepartureDM, NASLow + 1, "AAL1", "A", "", "CAMRN"),
   TrackMsg(BeaconTerminate, NASLow + 1, "AAL1", "A", "", "CAMRN")}

NextRelease ==
  \/ Queued(ZNY) = 0 /\ ERAMCreateSquawk(ZNY)
  \/ \E m \in ReleaseInputs : PushDeliver(m)
  \/ Queued(ZNY) < MaxPush /\ CallRequestFlightPlan(N90, NASLow, 0)
  \/ UpdateComputers(N90, TransmitFPMessageTime)
  \/ SortMessagesStep
  \/ SortMessagesReturn
  \/ SendFlightPlansCall
  \/ SortReceivedMessagesStep
  \/ SortReceivedMessagesReturn

SpecRelease == Init /\ [][NextRelease]_vars

\* Track information sent by the terminal computers N90 and PHL: to a peer
\* terminal computer of the same centre (N90 from PHL) and of another centre
\* (A90), to the sender itself (N90 from N90), to an enroute facility and to
\* an id that names no facility; between ticks that fill N90's tables.
\* The calls made: <<sender, facility passed>>.
TrackInfoCalls ==
  {<<PHL, N90>>, <<N90, A90>>, <<N90, N90>>, <<N90, ZNY>>, <<N90, <<"X", "X", "X">>>>}

NextTrackInfo ==
  \/ \E c \in TrackInfoCalls :
       /\ Queued(ZNY) < MaxQueued
       /\ c[2] \in TRACONs => Queued(c[2]) < MaxQueued
       /\ CallSendTrackInfo(c[1], c[2],
                            TrackMsg(InitiateTransfer, NASLow, "AAL1", "A", "B", "CAMRN"),
                            TransmitFPMessageTime)

  \/ \E m \in {PlanMsg(Plan, NASLow, "CAMRN", "110", 45)} :
       Queued(N90) < MaxQueued /\ CallToSTARSFacility(ZNY, N90, m)
  \/ Tick

SpecTrackInfo == Init /\ [][NextTrackInfo]_vars



(***************************************************************************)
(* Properties.                                                             *)
(***************************************************************************)
Computers == ARTCCs \cup TRACONs
\* The pool a computer draws from.
Pool(c) == IF c \in ARTCCs THEN eram[c].AvailableSquawks ELSE STARSAvailableSquawks(c)
Mailbox(c) == IF c \in ARTCCs THEN eram[c].ReceivedMessages ELSE stars[c].ReceivedMessages
\* The same after the step.
PoolAfter(c) ==
  IF c \in ARTCCs THEN eram'[c].AvailableSquawks ELSE bank'[TRACON_ARTCC[c]]
MailboxAfter(c) ==
  IF c \in ARTCCs THEN eram'[c].ReceivedMessages ELSE stars'[c].ReceivedMessages
Drains == {"SortMessages", "SortReceivedMessages"}

\* This step is a CreateSquawk call that returns a code.
SquawkReturned == ret'.op = "CreateSquawk" /\ ret'.err = ""

\* C1: a code that CreateSquawk returns on a computer was in that computer's
\* pool when the call was made and is not in it afterwards, so no later call
\* returns it before something has put it back; two consecutive successful
\* calls on one computer return different codes.
C1_NoCodeTwice ==
  [][SquawkReturned =>
       /\ ret'.code \in Pool(ret'.comp)
       /\ ret'.code \notin PoolAfter(ret'.comp)
       /\ (ret.op = "CreateSquawk" /\ ret.err = "" /\ ret.comp = ret'.comp
             => ret'.code # ret.code)]_vars

\* An InitiateTransfer has put the code of a flight plan into the pool of an
\* enroute computer, and a later CreateSquawk on that computer has returned
\* that code; the computer has handed out another code as well.
C1_Witness ==
  /\ ret.op = "CreateSquawk" /\ ret.err = "" /\ ret.comp = ZNY
  /\ ret.code \notin Pool(ZNY)
  /\ Cardinality(issued[ZNY]) = 2
  /\ Has(eram[ZNY].FlightPlans, ret.code)
  /\ eram[ZNY].TrackInformation # EmptyMap

\* The codes of the flight plans and tracks that a computer holds.
LiveCodes(c) ==
  IF c \in ARTCCs
  THEN (DOMAIN eram[c].FlightPlans)
       \cup {eram[c].heap[eram[c].TrackInformation[t].FlightPlan].AssignedSquawk :
               t \in {u \in DOMAIN eram[c].TrackInformation :
                        eram[c].TrackInformation[u].FlightPlan # NilRef}}
  ELSE (DOMAIN stars[c].ContainedPlans)
       \cup {stars[c].TrackInformation[t].FlightPlan.AssignedSquawk :
               t \in DOMAIN stars[c].TrackInformation}

\* C2: a code handed out by CreateSquawk that is the beacon code of a flight
\* plan or track the computer holds is not in that computer's pool.
C2_LiveCodeNotInPool ==
  \A c \in Computers : \A sq \in issued[c] :
    sq \in LiveCodes(c) => sq \notin Pool(c)

\* This step is the return of the drain of computer pc.comp.
DrainReturns == pc.op \in Drains /\ pc.i > Len(pc.batch) /\ pc' # pc
\* This step starts a drain (of computer pc'.comp).
DrainBegins ==
  /\ pc'.op \in Drains
  /\ pc.op # "panic"
  /\ (pc.op # pc'.op \/ pc.comp # pc'.comp)
\* This step handles message pc.batch[pc.i] in the drain of pc.comp.
DrainStep == pc.op \in Drains /\ pc.i <= Len(pc.batch) /\ pc' # pc

\* C3: when a drain returns, the mailbox of the computer is empty.
C3_MailboxEmptyAfterDrain ==
  [][DrainReturns => MailboxAfter(pc.comp) = <<>>]_vars

\* The messages delivered to computer c since the batch of its last drain
\* was taken.
Fresh(c) == IF c \in ARTCCs THEN eram[c].Fresh ELSE stars[c].Fresh

\* C4: the batch of a drain consists of exactly the messages delivered to
\* the computer since its previous drain (none of an earlier batch is in it
\* again), and the drain handles them one after the other in that order,
\* going on to the next message after each one, so that none is skipped.
C4_EachMessageOnceInOrder ==
  [][/\ DrainBegins => Len(pc'.batch) = Fresh(pc'.comp)
     /\ DrainStep => pc'.op = pc.op /\ pc'.i = pc.i + 1 /\ pc'.batch = pc.batch]_vars

\* C5: no message aborts a drain: the program never panics.
C5_NoPanic == pc.op # "panic"

\* The tables and the pool of a computer.
Tables(c) ==
  IF c \in ARTCCs
  THEN <<eram[c].FlightPlans, eram[c].TrackInformation, eram[c].heap,
         eram[c].AvailableSquawks>>
  ELSE <<stars[c].ContainedPlans, stars[c].TrackInformation,
         STARSAvailableSquawks(c)>>
\* The computer whose operation this step is.
Actor == IF pc.op = "idle" THEN ret'.comp ELSE pc.comp

\* C6: an operation of one computer changes no table and no pool of another.
C6_OnlyOwnTables ==
  [][\A c \in Computers : c # Actor => Tables(c)' = Tables(c)]_vars

(***************************************************************************)
(* One message handled by a terminal computer: the step of                 *)
(* SortReceivedMessages that handles pc.batch[pc.i].                       *)
(***************************************************************************)
STARSStep == pc.op = "SortReceivedMessages" /\ pc.i <= Len(pc.batch) /\ pc' # pc
CurMsg == pc.batch[pc.i]
Cur == stars[pc.comp]
CurAfter == stars'[pc.comp]
\* The message handled last and the computer that handled it.
Handled == pc.op = "SortReceivedMessages" /\ pc.i > 1
LastMsg == pc.batch[pc.i - 1]

\* C7: an InitiateTransfer for a code with a plan in the plan table moves
\* the plan into a track entry for the message's identifier, with the
\* message's owner and handoff controller, and posts one transfer-accepted
\* event.
C7_TransferAccepted ==
  [][STARSStep /\ CurMsg.MessageType = InitiateTransfer
       /\ Has(Cur.ContainedPlans, CurMsg.BCN)
     => /\ ~Has(CurAfter.ContainedPlans, CurMsg.BCN)
        /\ Has(CurAfter.TrackInformation, CurMsg.Identifier)
        /\ CurAfter.TrackInformation[CurMsg.Identifier].TrackOwner = CurMsg.TrackOwner
        /\ CurAfter.TrackInformation[CurMsg.Identifier].HandoffController
             = CurMsg.HandoffController
        /\ CurAfter.TrackInformation[CurMsg.Identifier].FlightPlan
             = Cur.ContainedPlans[CurMsg.BCN]
        /\ events' = Append(events, Event(TransferAcceptedEvent, CurMsg.Identifier,
                                          CurMsg.TrackOwner))]_vars

\* A first batch of a Plan and an InitiateTransfer for its code has been
\* handled.
C7_Witness ==
  /\ Handled /\ pc.i = 3
  /\ pc.batch[1].MessageType = Plan /\ LastMsg.MessageType = InitiateTransfer
  /\ pc.batch[1].BCN = LastMsg.BCN
  /\ Has(Cur.TrackInformation, LastMsg.Identifier)
  /\ ~Has(Cur.ContainedPlans, LastMsg.BCN)
  /\ events = <<Event(TransferAcceptedEvent, LastMsg.Identifier, LastMsg.TrackOwner)>>

\* C8: an InitiateTransfer for which the computer has neither a plan nor a
\* track entry posts one transfer-rejected event and changes no table and
\* no pool.
C8_TransferRejected ==
  [][STARSStep /\ CurMsg.MessageType = InitiateTransfer
       /\ ~Has(Cur.ContainedPlans, CurMsg.BCN)
       /\ ~Has(Cur.TrackInformation, CurMsg.Identifier)
     => /\ events' = Append(events, Event(TransferRejectedEvent, CurMsg.Identifier,
                                          CurMsg.TrackOwner))
        /\ CurAfter.ContainedPlans = Cur.ContainedPlans
        /\ CurAfter.TrackInformation = Cur.TrackInformation
        /\ bank' = bank]_vars

\* An InitiateTransfer has been rejected by a computer that holds a track
\* for another identifier.
C8_Witness ==
  /\ Handled /\ LastMsg.MessageType = InitiateTransfer
  /\ ~Has(Cur.TrackInformation, LastMsg.Identifier)
  /\ Cur.TrackInformation # EmptyMap
  /\ events # <<>>
  /\ events[Len(events)]
       = Event(TransferRejectedEvent, LastMsg.Identifier, LastMsg.TrackOwner)

\* C9: an AcceptRecallTransfer whose owner differs from the stored owner of
\* the track entry keeps the entry, makes the message's owner its owner and
\* clears its handoff controller; the rest of the entry, the other entries
\* and the plan table stay.
C9_Accept ==
  [][STARSStep /\ CurMsg.MessageType = AcceptRecallTransfer
       /\ Has(Cur.TrackInformation, CurMsg.Identifier)
       /\ CurMsg.TrackOwner # Cur.TrackInformation[CurMsg.Identifier].TrackOwner
     => /\ CurAfter.TrackInformation =
             [Cur.TrackInformation EXCEPT
                ![CurMsg.Identifier].TrackOwner = CurMsg.TrackOwner,
                ![CurMsg.Identifier].HandoffController = ""]
        /\ CurAfter.ContainedPlans = Cur.ContainedPlans]_vars

\* A track entry has been made with owner A and pending handoff controller
\* B, and the next message, an accept by B, has been handled.
C9_Witness ==
  /\ Handled /\ pc.i > 2
  /\ LastMsg.MessageType = AcceptRecallTransfer /\ LastMsg.TrackOwner = "B"
  /\ pc.batch[pc.i - 2].MessageType = InitiateTransfer
  /\ pc.batch[pc.i - 2].Identifier = LastMsg.Identifier
  /\ pc.batch[pc.i - 2].HandoffController = "B"
  /\ events = <<Event(TransferAcceptedEvent, LastMsg.Identifier, "A")>>
  /\ Has(Cur.TrackInformation, LastMsg.Identifier)
  /\ Cur.TrackInformation[LastMsg.Identifier].TrackOwner = "B"
  /\ Cur.TrackInformation[LastMsg.Identifier].HandoffController = ""

C11_AcceptRecallUnknown ==
  [][STARSStep /\ CurMsg.MessageType = AcceptRecallTransfer
       /\ ~Has(Cur.TrackInformation, CurMsg.Identifier)
     => /\ CurAfter.ContainedPlans = Cur.ContainedPlans
        /\ CurAfter.TrackInformation = Cur.TrackInformation
        /\ bank' = bank
        /\ events' = events]_vars

\* The same recall has been handled twice in a row by a computer that holds
\* the track entry of another identifier: after the second one the
\* identifier of the recall has no entry, the other entry is there, and no
\* event has been posted in the tick.
C11_Witness ==
  /\ Handled /\ pc.i > 2
  /\ LastMsg.MessageType = AcceptRecallTransfer /\ LastMsg.TrackOwner = "A"
  /\ pc.batch[pc.i - 2] = LastMsg
  /\ events = <<>>
  /\ ~Has(Cur.TrackInformation, LastMsg.Identifier)
  /\ Has(Cur.TrackInformation, "UAL2")

(***************************************************************************)
(* The track entry of identifier id at terminal computer s.                *)
(***************************************************************************)
Tracked(s, id) == Has(stars[s].TrackInformation, id)
TrackedAfter(s, id) == Has(stars'[s].TrackInformation, id)
Entry(s, id) == stars[s].TrackInformation[id]
EntryAfter(s, id) == stars'[s].TrackInformation[id]
Identifiers(s) ==
  (DOMAIN stars[s].TrackInformation) \cup (DOMAIN stars'[s].TrackInformation)
\* This step creates, deletes or changes the entry.
EntryChanges(s, id) ==
  \/ Tracked(s, id) # TrackedAfter(s, id)
  \/ Tracked(s, id) /\ TrackedAfter(s, id) /\ Entry(s, id) # EntryAfter(s, id)
\* This step is computer s handling a message for identifier id.
Handles(s, id) == STARSStep /\ pc.comp = s /\ CurMsg.Identifier = id
\* The entry after the step is that of an accepted InitiateTransfer.
AcceptedTransfer(s, id) ==
  /\ CurMsg.MessageType = InitiateTransfer
  /\ TrackedAfter(s, id)
  /\ EntryAfter(s, id).TrackOwner = CurMsg.TrackOwner
  /\ EntryAfter(s, id).HandoffController = CurMsg.HandoffController
  /\ events' = Append(events, Event(TransferAcceptedEvent, id, CurMsg.TrackOwner))
\* The step is an accept: the owner changes to the message's.
AcceptStep(s, id) ==
  /\ CurMsg.MessageType = AcceptRecallTransfer
  /\ Tracked(s, id) /\ TrackedAfter(s, id)
  /\ CurMsg.TrackOwner # Entry(s, id).TrackOwner
  /\ EntryAfter(s, id) = [Entry(s, id) EXCEPT !.TrackOwner = CurMsg.TrackOwner,
                                                !.HandoffController = ""]
\* The step is a recall: the entry is deleted.
RecallStep(s, id) ==
  /\ CurMsg.MessageType = AcceptRecallTransfer
  /\ Tracked(s, id) /\ ~TrackedAfter(s, id)
  /\ CurMsg.TrackOwner = Entry(s, id).TrackOwner

Installs == CurAfter.ContainedPlans = MapSet(Cur.ContainedPlans, CurMsg.BCN,
                                             FlightPlanOf(CurMsg))
\* The step handles a message that was delivered (not the blank that
\* clear() has left in the slot of an earlier batch).
Delivered == STARSStep /\ CurMsg # ZeroMessage

\* C13, as the specification states it: for every code, a Plan and an
\* Amendment install the plan built from the message under the code of the
\* message, overwriting an earlier one, and a Cancellation removes the plan
\* of its code.
C13_PlanInstalledAnyCode ==
  [][Delivered =>
       /\ CurMsg.MessageType \in {Plan, Amendment} => Installs
       /\ CurMsg.MessageType = Cancellation
            => CurAfter.ContainedPlans = MapDel(Cur.ContainedPlans, CurMsg.BCN)]_vars

\* C13, amended: a Plan with a code other than 0 and an Amendment with any
\* code install the plan built from the message under its code, overwriting
\* an earlier one and leaving the plans of other codes; a Plan with code 0
\* changes nothing; a Cancellation removes the plan of its code; none of
\* them touches the track table or posts an event.
C13_PlanInstalled ==
  [][Delivered /\ CurMsg.MessageType \in {Plan, Amendment, Cancellation} =>
       /\ CurMsg.MessageType = Plan /\ CurMsg.BCN # 0 => Installs
       /\ CurMsg.MessageType = Plan /\ CurMsg.BCN = 0
            => CurAfter.ContainedPlans = Cur.ContainedPlans
       /\ CurMsg.MessageType = Amendment => Installs
       /\ CurMsg.MessageType = Cancellation
            => CurAfter.ContainedPlans = MapDel(Cur.ContainedPlans, CurMsg.BCN)
       /\ CurAfter.TrackInformation = Cur.TrackInformation
       /\ events' = events]_vars

\* A Plan for a code has been handled and the next message, a Cancellation
\* for that code, has removed the plan; the plan of another code and the
\* plan that an Amendment has installed under code 0 are still in the table.
C13_Witness ==
  /\ Handled /\ pc.i > 2
  /\ LastMsg.MessageType = Cancellation
  /\ pc.batch[pc.i - 2].MessageType = Plan
  /\ pc.batch[pc.i - 2].BCN = LastMsg.BCN
  /\ ~Has(Cur.ContainedPlans, LastMsg.BCN)
  /\ Has(Cur.ContainedPlans, NASLow + 1)
  /\ Has(Cur.ContainedPlans, 0)

(***************************************************************************)
(* The lookahead push: the step in which enroute computer pc.comp runs     *)
(* SendFlightPlans with the clock value pc.simTime.                        *)
(***************************************************************************)
PushStep == pc.op = "SendFlightPlans" /\ pc' # pc
\* The plan objects the computer holds, in its table or attached to tracks.
Plans(e) == DOMAIN eram[e].heap
PlanAt(e, r) == eram[e].heap[r]
\* now + W has reached the coordination time of the plan.
Due(fp, now) == ~(now + TransmitFPMessageTime < fp.CoordinationTime.Time)
\* What the adaptation resolves for the plan: [ok, fix].
Resolved(e, fp) == AdaptationFixForAltitude(e, fp.CoordinationFix, fp.Altitude)
\* The destination is in the plan's distribution record.
Recorded(fp, d) ==
  \E i \in 1..Len(fp.ContainedFacilities) : fp.ContainedFacilities[i] = d
\* The Plan message by which computer e transmits the plan at clock value now.
PushMessage(e, fp, now) ==
  [MessageOf(fp) EXCEPT !.MessageType = Plan, !.SourceID = formatSourceID(e, now)]
\* The messages that the step appends to the mailbox of computer c.
NewMessages(c) ==
  SubSeq(MailboxAfter(c), Len(Mailbox(c)) + 1, Len(MailboxAfter(c)))
\* The places <<c, i>> of the messages that the step appends.
NewPlaces == UNION {{<<c, i>> : i \in 1..Len(NewMessages(c))} : c \in Computers}
NewAt(p) == NewMessages(p[1])[p[2]]

\* C14: a lookahead push at a clock value now with now + W < T, for a plan
\* with coordination time T, appends no message of that plan to any mailbox
\* and leaves the plan, its distribution record included, as it is.
C14_NotBeforeWindow ==
  [][PushStep =>
       \A r \in Plans(pc.comp) :
         ~Due(PlanAt(pc.comp, r), pc.simTime) =>
           /\ \A p \in NewPlaces :
                NewAt(p) # PushMessage(pc.comp, PlanAt(pc.comp, r), pc.simTime)
           /\ r \in DOMAIN eram'[pc.comp].heap
           /\ eram'[pc.comp].heap[r] = PlanAt(pc.comp, r)]_vars

\* A push at clock value 0 has transmitted a plan with coordination time 30
\* and has kept back a plan with coordination time 45, whose distribution
\* record is empty.
C14_Witness ==
  /\ pc.op = "SortReceivedMessages" /\ pc.i = 1 /\ pc.simTime = 0
  /\ \E r \in Plans(ZNY) :
       /\ PlanAt(ZNY, r).CoordinationTime.Time = 45
       /\ Resolved(ZNY, PlanAt(ZNY, r)).ok
       /\ PlanAt(ZNY, r).ContainedFacilities = <<>>
  /\ \E r \in Plans(ZNY) :
       /\ PlanAt(ZNY, r).CoordinationTime.Time = 30
       /\ PlanAt(ZNY, r).ContainedFacilities # <<>>

\* The beacon codes of the plans that computer e holds.
Codes(e) == {PlanAt(e, r).AssignedSquawk : r \in Plans(e)}
\* The destination that the adaptation of e resolves for a Plan message.
MessageDestination(e, m) ==
  AdaptationFixForAltitude(e, m.CoordinationFix, m.Altitude).fix.ToFacility
\* The messages with code b that the step appends for destination d.
Transmissions(e, b, d) ==
  {p \in NewPlaces : NewAt(p).BCN = b /\ MessageDestination(e, NewAt(p)) = d}

\* C15: a lookahead push transmits the plan of a beacon code at most once
\* for a destination, and not at all for a destination that is in the
\* distribution record of a plan that the computer holds for that code.
C15_AtMostOnce ==
  [][PushStep =>
       \A b \in Codes(pc.comp) : \A d \in Computers :
         /\ Cardinality(Transmissions(pc.comp, b, d)) <= 1
         /\ (\E r \in Plans(pc.comp) :
               /\ PlanAt(pc.comp, r).AssignedSquawk = b
               /\ Recorded(PlanAt(pc.comp, r), d))
            => Transmissions(pc.comp, b, d) = {}]_vars

\* Plan object r of computer e is due at clock value now and resolves to a
\* destination that is not in its distribution record.
Pending(e, r, now) ==
  /\ Due(PlanAt(e, r), now)
  /\ Resolved(e, PlanAt(e, r)).ok
  /\ ~Recorded(PlanAt(e, r), Resolved(e, PlanAt(e, r)).fix.ToFacility)
\* The push transmits every pending plan and records its destination.
PushTransmits ==
  PushStep =>
    \A r \in Plans(pc.comp) :
      Pending(pc.comp, r, pc.simTime) =>
        /\ \E p \in NewPlaces :
             NewAt(p) = PushMessage(pc.comp, PlanAt(pc.comp, r), pc.simTime)
        /\ r \in DOMAIN eram'[pc.comp].heap
        /\ Recorded(eram'[pc.comp].heap[r],
                    Resolved(pc.comp, PlanAt(pc.comp, r)).fix.ToFacility)
\* The tick reaches the push: the drain of a computer that holds a pending
\* plan when the drain starts does not abort on the head of the mailbox.
PushReached ==
  (/\ pc.op = "SortMessages" /\ pc.i = 1
   /\ \E r \in Plans(pc.comp) : Pending(pc.comp, r, pc.simTime))
  => pc'.op # "panic"

\* C16: a tick at a clock value now with now + W >= T transmits every plan
\* that its enroute computer holds and that resolves to a destination not in
\* the distribution record: the drain of the computer gets to the push, and
\* the push appends the Plan message and records the destination.
C16_DueTickTransmits == [][PushReached /\ PushTransmits]_vars

\* The computer whose mailbox takes a message that computer e sends towards
\* facility d: d itself if e owns it, else the enroute computer that owns d.
MailboxTowards(e, d) ==
  IF d \in STARSComputers(e) THEN d
  ELSE IF d \in TRACONs THEN TRACON_ARTCC[d]
  ELSE d

\* C17: the Plan message of a lookahead transmission is appended to the
\* mailbox of the destination that the adaptation resolves for the plan if
\* the sender owns that terminal computer, and otherwise to the mailbox of
\* the enroute computer that owns the destination.
C17_PushDestination ==
  [][PushStep =>
       \A p \in NewPlaces :
         MessageDestination(pc.comp, NewAt(p)) # pc.comp =>
           p[1] = MailboxTowards(pc.comp, MessageDestination(pc.comp, NewAt(p)))]_vars

\* Message m is a Plan message with a beacon code whose coordination fix and
\* altitude resolve, in the adaptation of e, to terminal computer t of e.
ForwardedPlan(e, m, t) ==
  /\ m.MessageType = Plan /\ m.BCN # 0
  /\ t \in STARSComputers(e)
  /\ AdaptationFixForAltitude(e, m.CoordinationFix, m.Altitude).ok
  /\ MessageDestination(e, m) = t
\* The drain gets to such a message: it does not abort while the message is
\* still to be handled.
ForwardingDrain ==
  (/\ pc.op = "SortMessages"
   /\ \E i \in pc.i..Len(pc.batch) : \E t \in TRACONs :
        ForwardedPlan(pc.comp, pc.batch[i], t))
  => pc'.op # "panic"
\* The tick ends: UpdateComputers returns.
TickReturns == pc.op # "idle" /\ pc'.op = "idle"
\* Terminal computer t holds a plan for code b: in its plan table or, once a
\* transfer of the same tick has taken it from there, in the track entry.
TerminalHolds(st, b) ==
  \/ Has(st.ContainedPlans, b)
  \/ \E id \in DOMAIN st.TrackInformation :
       st.TrackInformation[id].FlightPlan.AssignedSquawk = b
\* When the tick ends, the terminal computer holds the plan of each such
\* message.
ForwardedAtReturn ==
  TickReturns =>
    \A e \in ARTCCs : \A b \in DOMAIN eram'[e].FlightPlans : \A t \in TRACONs :
      ForwardedPlan(e, MessageOf(eram'[e].heap[eram'[e].FlightPlans[b]]), t)
        => TerminalHolds(stars'[t], b)

\* C18: a Plan message with a beacon code b and a coordination fix that
\* resolves to a terminal computer of the enroute computer it is delivered
\* to is drained in the next tick, and when that tick ends the plan table of
\* the terminal computer holds a plan for b.
C18_EndToEnd == [][ForwardingDrain /\ ForwardedAtReturn]_vars

(***************************************************************************)
(* The delivery calls.                                                     *)
(***************************************************************************)
DeliveryOps == {"ToSTARSFacility", "SendMessageToERAM", "SendToOverlyingERAMFacility"}
\* The caller of operation op knows facility id to.
Known(op, comp, to) ==
  CASE op = "ToSTARSFacility" -> to \in STARSComputers(comp)
    [] op = "SendMessageToERAM" -> to \in ERAMInboxes(comp)
    [] OTHER -> to = TRACON_ARTCC[comp]
\* This step is a delivery call with a facility id the caller knows, or with
\* one it does not know.
DeliveryKnown == ret'.op \in DeliveryOps /\ Known(ret'.op, ret'.comp, ret'.to)
DeliveryUnknown == ret'.op \in DeliveryOps /\ ~Known(ret'.op, ret'.comp, ret'.to)
\* A computer without its mailbox: its tables and its pool.
Rest(comp) == [comp EXCEPT !.ReceivedMessages = <<>>, !.Fresh = 0]
\* The step changes no table and no pool of any computer.
TablesKept ==
  /\ \A e \in ARTCCs : Rest(eram'[e]) = Rest(eram[e])
  /\ \A s \in TRACONs : Rest(stars'[s]) = Rest(stars[s])
  /\ bank' = bank
  /\ events' = events

\* C19: a delivery call with a facility id the caller knows returns no
\* error and appends the message at the tail of the mailbox of the named
\* computer; the messages queued before keep their content and order, and
\* no other mailbox, no table and no pool changes.
C19_DeliveryAppends ==
  [][DeliveryKnown =>
       /\ ret'.err = ""
       /\ MailboxAfter(ret'.to) = Append(Mailbox(ret'.to), ret'.msg)
       /\ \A c \in Computers \ {ret'.to} : MailboxAfter(c) = Mailbox(c)
       /\ TablesKept]_vars

\* The last call delivered a message to N90, behind a blank slot and an
\* earlier message, while N90 holds a plan and ZBW has mail of its own.
C19_Witness ==
  /\ ret.op = "ToSTARSFacility" /\ ret.to = N90 /\ ret.err = ""
  /\ Len(Mailbox(N90)) = 3
  /\ Mailbox(N90)[1] = ZeroMessage
  /\ Mailbox(N90)[2] # ret.msg /\ Mailbox(N90)[2] # ZeroMessage
  /\ Mailbox(N90)[3] = ret.msg
  /\ stars[N90].ContainedPlans # EmptyMap
  /\ Mailbox(ZBW) # <<>>

\* C20: a delivery call with a facility id the caller does not know returns
\* ErrUnknownFacility and changes no mailbox, no table and no pool.
C20_UnknownFacility ==
  [][DeliveryUnknown =>
       /\ ret'.err = ErrUnknownFacility
       /\ \A c \in Computers : MailboxAfter(c) = Mailbox(c)
       /\ TablesKept]_vars

\* The last call was SendMessageToERAM on ZNY with ZNY's own id: it returned
\* the error, while N90 has mail and holds a plan.
C20_Witness ==
  /\ ret.op = "SendMessageToERAM" /\ ret.comp = ZNY /\ ret.to = ZNY
  /\ ret.err = ErrUnknownFacility
  /\ Mailbox(ZNY) = <<>>
  /\ Len(Mailbox(N90)) > 1
  /\ stars[N90].ContainedPlans # EmptyMap

(***************************************************************************)
(* The facility lookup.                                                    *)
(***************************************************************************)
\* This step is a FacilityComputers call.
LookupStep == ret'.op = "FacilityComputers"

\* C21: FacilityComputers(id) returns the enroute computer, no terminal
\* computer and no error for the id of an enroute facility; the owning
\* enroute computer, the terminal computer, which is one of that enroute
\* computer's terminal computers, and no error for the id of a terminal
\* facility; ErrUnknownFacility and no computer for every other id.  The
\* call changes no state.
C21_FacilityComputers ==
  [][LookupStep =>
       /\ ret'.to \in ARTCCs =>
            /\ ret'.out = [eram |-> ret'.to, stars |-> NilComputer]
            /\ ret'.err = ""
       /\ ret'.to \in TRACONs =>
            /\ ret'.out = [eram |-> TRACON_ARTCC[ret'.to], stars |-> ret'.to]
            /\ ret'.out.stars \in STARSComputers(ret'.out.eram)
            /\ ret'.err = ""
       /\ ret'.to \notin ARTCCs \cup TRACONs =>
            /\ ret'.out = [eram |-> NilComputer, stars |-> NilComputer]
            /\ ret'.err = ErrUnknownFacility
       /\ UNCHANGED <<eram, stars, bank, events, pc, issued>>]_vars

\* The lookup of A90 has returned ZBW and A90, while N90 holds a plan and
\* has mail.
C21_Witness ==
  /\ ret.op = "FacilityComputers" /\ ret.to = A90
  /\ ret.out = [eram |-> ZBW, stars |-> A90] /\ ret.err = ""
  /\ stars[N90].ContainedPlans # EmptyMap
  /\ Len(stars[N90].ReceivedMessages) > 1

(***************************************************************************)
(* Delivery and processing.                                                *)
(***************************************************************************)
\* The tables and the pool of computer c, before and after the step.
RestOf(c) == IF c \in ARTCCs THEN Rest(eram[c]) ELSE Rest(stars[c])
RestAfter(c) == IF c \in ARTCCs THEN Rest(eram'[c]) ELSE Rest(stars'[c])
\* The step belongs to a drain or to the push of computer c.
OwnStep(c) ==
  /\ pc.comp = c
  /\ pc.op \in Drains \cup {"SendFlightPlans"}

\* C22: a message is processed only by the drain of the computer in whose
\* mailbox it is: the tables of a computer change in no step but those of
\* its own drain and push, so not while another computer drains and
\* delivers to it; and while a computer drains, the batch it works on stays
\* as it was taken and nothing is appended to its own mailbox.
C22_ProcessedByOwnDrain ==
  [][/\ \A c \in Computers : RestAfter(c) # RestOf(c) => OwnStep(c)
     /\ DrainStep =>
          /\ pc'.batch = pc.batch
          /\ Len(MailboxAfter(pc.comp)) <= Len(Mailbox(pc.comp))]_vars

\* ZNY is draining and has delivered a Plan message to N90, whose plan
\* table is still empty.
C22_Witness ==
  /\ pc.op = "SortMessages" /\ pc.comp = ZNY /\ pc.i > 1
  /\ \E i \in 1..Len(Mailbox(N90)) :
       Mailbox(N90)[i].MessageType = Plan /\ Mailbox(N90)[i].BCN = NASLow
  /\ stars[N90].ContainedPlans = EmptyMap
  /\ stars[N90].TrackInformation = EmptyMap

(***************************************************************************)
(* Determinism of the tick.                                                *)
(***************************************************************************)
\* The loop of UpdateComputers has finished with computer c in this tick:
\* what is in its mailbox and tables now is there when the tick ends, but
\* for what is appended behind it.
Visited(c) ==
  IF c \in ARTCCs THEN c \notin pc.erams
  ELSE TRACON_ARTCC[c] \notin pc.erams /\ TRACON_ARTCC[c] # pc.comp
\* Computer c as it is in world w.
In(w, c) == IF c \in ARTCCs THEN w.eram[c] ELSE w.stars[c]
\* The worlds in which the step of the tick that is due can end.
Outcomes ==
  IF pc.op = "SendFlightPlans"
  THEN SendFlightPlans(World, pc.comp, pc.tracon, pc.simTime)
  ELSE IF pc.op = "SortMessages" /\ pc.i <= Len(pc.batch)
  THEN ERAMProcess(World, pc.comp, pc.batch[pc.i], pc.simTime)
  ELSE {World}

\* C23: with the order of the computers and the clock value given, each
\* step of a tick has one outcome for every computer the tick is through
\* with and for the computer at work: the tables, pools and mailboxes,
\* with the order of the messages, do not depend on anything else.
C23_TickDeterministic ==
  \A w1, w2 \in Outcomes :
    \A c \in Computers : (Visited(c) \/ c = pc.comp) => In(w1, c) = In(w2, c)

(***************************************************************************)
(* The allocators.                                                         *)
(***************************************************************************)
\* This step is a CreateSquawk call.
SquawkCalled == ret'.op = "CreateSquawk"

\* C24: CreateSquawk on a pool that is not empty returns, without error, a
\* code of the pool and removes that code and no other; on an empty pool it
\* returns ErrNoMoreAvailableSquawkCodes with code 0 and the pool stays
\* empty.  This holds for the enroute and for the terminal allocator.
C24_CreateSquawk ==
  [][SquawkCalled =>
       IF Pool(ret'.comp) # {}
       THEN /\ ret'.err = ""
            /\ ret'.code \in Pool(ret'.comp)
            /\ PoolAfter(ret'.comp) = Pool(ret'.comp) \ {ret'.code}
       ELSE /\ ret'.err = ErrNoMoreAvailableSquawkCodes
            /\ ret'.code = 0
            /\ PoolAfter(ret'.comp) = {}]_vars

\* CreateSquawk on N90 has failed on the empty pool, after every code of
\* the bank was handed out; ZNY has handed out a code of its own pool.
C24_Witness ==
  /\ ret.op = "CreateSquawk" /\ ret.comp = N90
  /\ ret.err = ErrNoMoreAvailableSquawkCodes /\ ret.code = 0
  /\ Pool(N90) = {}
  /\ Cardinality(issued[N90]) = MaxCodes
  /\ issued[ZNY] # {}

\* The bank numbers: two octal digits.
BankNumbers == 0..BankLast
\* The 64 codes n*0o100 .. n*0o100 + 0o77 of bank n.
BankRange(n) == (n * BankSize)..(n * BankSize + BankLast)
\* The codes that the terminal computers of enroute computer e have drawn
\* from their pool.
Drawn(e) == UNION {issued[s] : s \in STARSComputers(e)}

\* C25: the pool seeded for bank n is the 64 codes n*0o100 .. n*0o100 + 0o77:
\* getBeaconBankSquawks gives that range for every bank number, and the
\* codes first in the pool of a computer's terminal computers, those still
\* in it and those drawn from it, are the lowest codes of that range.
C25_BankOf64 ==
  /\ \A n \in BankNumbers :
       /\ getBeaconBankSquawks(n) = BankRange(n)
       /\ Cardinality(getBeaconBankSquawks(n)) = BankSize
  /\ \A e \in ARTCCs :
       Lowest(bank[e] \cup Drawn(e), MaxCodes) = Lowest(BankRange(starsBeaconBank), MaxCodes)

\* A code that the NAS-wide pool is not to hold.
Reserved(sq) == SquawkIsSPC(sq) \/ sq = VFRCode \/ sq = 0

\* C26: the pool of an enroute computer holds no special-purpose code, not
\* the VFR code and not code 0, and CreateSquawk on an enroute computer
\* returns none of them.
C26_NoReservedCode ==
  /\ pc.op # "panic" =>
       \A e \in ARTCCs : \A sq \in eram[e].AvailableSquawks : ~Reserved(sq)
  /\ (ret.op = "CreateSquawk" /\ ret.comp \in ARTCCs /\ ret.err = "")
       => ~Reserved(ret.code)

(***************************************************************************)
(* The Plan handler of the enroute computer.                               *)
(***************************************************************************)
\* This step handles a Plan message in the drain of an enroute computer.
PlanStep ==
  /\ pc.op = "SortMessages" /\ pc.i <= Len(pc.batch) /\ pc' # pc
  /\ pc.batch[pc.i].MessageType = Plan
\* The plan that enroute computer ec holds under code b, and under track t.
TablePlan(ec, b) == ec.heap[ec.FlightPlans[b]]
TrackPlan(ec, t) ==
  IF ec.TrackInformation[t].FlightPlan = NilRef THEN NilRef
  ELSE ec.heap[ec.TrackInformation[t].FlightPlan]
\* Plan fp is built from message m: the conversion of m, but for the
\* coordination fix when m has none.
BuiltFrom(fp, m) ==
  /\ [fp EXCEPT !.CoordinationFix = ""] = [FlightPlanOf(m) EXCEPT !.CoordinationFix = ""]
  /\ m.CoordinationFix # "" => fp.CoordinationFix = m.CoordinationFix
\* The step installs the plan of message m at computer e and leaves every
\* other entry of the tables, and the pool, as they are.
InstallsOnly(e, m) ==
  /\ DOMAIN eram'[e].FlightPlans = (DOMAIN eram[e].FlightPlans) \cup {m.BCN}
  /\ BuiltFrom(TablePlan(eram'[e], m.BCN), m)
  /\ \A b \in (DOMAIN eram[e].FlightPlans) \ {m.BCN} :
       TablePlan(eram'[e], b) = TablePlan(eram[e], b)
  /\ DOMAIN eram'[e].TrackInformation = DOMAIN eram[e].TrackInformation
  /\ \A t \in DOMAIN eram[e].TrackInformation :
       /\ TrackPlan(eram'[e], t) = TrackPlan(eram[e], t)
       /\ [eram'[e].TrackInformation[t] EXCEPT !.FlightPlan = NilRef]
            = [eram[e].TrackInformation[t] EXCEPT !.FlightPlan = NilRef]
  /\ eram'[e].AvailableSquawks = eram[e].AvailableSquawks

\* C27: the step in which an enroute computer handles a Plan message leaves
\* the plan built from the message in the flight-plan table under the
\* message's beacon code, whatever was there before and whether or not a
\* fix resolves and the message is forwarded, and changes no other entry.
C27_PlanInstalledEnroute ==
  [][PlanStep => InstallsOnly(pc.comp, pc.batch[pc.i])]_vars
\* The same for the Plan messages with a beacon code.
PlanInstalledWithCode ==
  [][(PlanStep /\ pc.batch[pc.i].BCN # 0) => InstallsOnly(pc.comp, pc.batch[pc.i])]_vars


\* The destination that the adaptation of computer e resolves for the plan
\* of message m: by the fix the message gives or else the fix derived from
\* route and altitude, at the plan's altitude.  The result is [ok, to].
ResolvedDestination(e, m) ==
  LET fp == FlightPlanOf(m)
      derived == FixForRouteAndAltitude(e, fp.Route, fp.Altitude)
      name == IF fp.CoordinationFix # "" THEN fp.CoordinationFix ELSE derived.name
      af == AdaptationFixForAltitude(e, name, fp.Altitude)
  IN  IF fp.CoordinationFix = "" /\ ~derived.ok THEN [ok |-> FALSE, to |-> <<>>]
      ELSE [ok |-> af.ok, to |-> af.fix.ToFacility]
\* The step appends message m to the mailbox of computer d and nothing else
\* to any mailbox.
ForwardsOnce(d, m) == NewPlaces = {<<d, 1>>} /\ NewAt(<<d, 1>>) = m
\* This step handles a Plan message and the drain goes on.
PlanHandled == PlanStep /\ pc'.op # "panic"

\* C28: the step in which an enroute computer handles a Plan message appends
\* the message once to the mailbox of the terminal computer of the resolved
\* destination when the fix, given or derived, resolves for the plan's
\* altitude to a facility other than the computer itself, and appends
\* nothing to any mailbox otherwise; the plan is in the table afterwards.
C28_PlanForwarded ==
  [][PlanHandled =>
       LET e == pc.comp
           m == pc.batch[pc.i]
           d == ResolvedDestination(e, m)
       IN  /\ Has(eram'[e].FlightPlans, m.BCN)
           /\ IF d.ok /\ d.to # e THEN ForwardsOnce(d.to, m)
              ELSE NewPlaces = {}]_vars
\* The same, with forwarding only to the terminal computers that the
\* enroute computer owns.
PlanForwardedToOwned ==
  [][PlanHandled =>
       LET e == pc.comp
           m == pc.batch[pc.i]
           d == ResolvedDestination(e, m)
       IN  /\ Has(eram'[e].FlightPlans, m.BCN)
           /\ IF d.ok /\ d.to \in STARSComputers(e) THEN ForwardsOnce(d.to, m)
              ELSE NewPlaces = {}]_vars
\* A Plan message was handled whose destination is a terminal computer of
\* another enroute computer.
PlanForOtherTerminal ==
  /\ pc.op = "SortMessages" /\ pc.i > 1 /\ pc.i - 1 <= Len(pc.batch)
  /\ pc.batch[pc.i - 1].MessageType = Plan
  /\ ResolvedDestination(pc.comp, pc.batch[pc.i - 1]).ok
  /\ ResolvedDestination(pc.comp, pc.batch[pc.i - 1]).to
       \in TRACONs \ STARSComputers(pc.comp)

(***************************************************************************)
(* Requests for a flight plan.                                             *)
(***************************************************************************)
\* This step handles a RequestFlightPlan message in the drain of an enroute
\* computer.
RequestStep ==
  /\ pc.op = "SortMessages" /\ pc.i <= Len(pc.batch) /\ pc' # pc
  /\ pc.batch[pc.i].MessageType = RequestFlightPlan
\* The facility that sent message m: the first three characters of its
\* source tag.
Requester(m) == SubSeq(m.SourceID, 1, 3)
\* The step appends one Plan message with code b and the source tag of
\* computer e at clock value now to the mailbox of facility d, and nothing
\* else to any mailbox.
AnswersOnce(d, b, e, now) ==
  /\ NewPlaces = {<<d, 1>>}
  /\ NewAt(<<d, 1>>).MessageType = Plan
  /\ NewAt(<<d, 1>>).BCN = b
  /\ NewAt(<<d, 1>>).SourceID = formatSourceID(e, now)

\* C29: the step in which an enroute computer handles a RequestFlightPlan
\* appends one Plan message with the requested code and the computer's id
\* and the current time as source tag to the mailbox of the requesting
\* facility when the table holds a plan under that code, and appends
\* nothing when it holds none; the flight-plan table, the track table and
\* the pool of the computer stay as they are.
C29_RequestAnswered ==
  [][RequestStep =>
       LET e == pc.comp
           m == pc.batch[pc.i]
       IN  /\ IF Has(eram[e].FlightPlans, m.BCN)
              THEN AnswersOnce(Requester(m), m.BCN, e, pc.simTime)
              ELSE NewPlaces = {}
           /\ eram'[e].FlightPlans = eram[e].FlightPlans
           /\ eram'[e].TrackInformation = eram[e].TrackInformation
           /\ eram'[e].heap = eram[e].heap
           /\ eram'[e].AvailableSquawks = eram[e].AvailableSquawks]_vars
\* An enroute computer has answered a request: the terminal computer that
\* asked has the Plan message with the enroute computer's tag in its mailbox
\* while the drain goes on.
C29_Witness ==
  /\ pc.op = "SortMessages" /\ pc.i > 1 /\ pc.i - 1 <= Len(pc.batch)
  /\ pc.batch[pc.i - 1].MessageType = RequestFlightPlan
  /\ Has(eram[pc.comp].FlightPlans, pc.batch[pc.i - 1].BCN)
  /\ \E i \in 1..Len(Mailbox(N90)) :
       /\ Mailbox(N90)[i].MessageType = Plan
       /\ Mailbox(N90)[i].SourceID = formatSourceID(pc.comp, pc.simTime)

\* This step is a call of RequestFlightPlan on a terminal computer.
RequestCalled == ret'.op = "RequestFlightPlan"
\* The request that terminal computer s builds for code b at clock value t.
RequestOf(s, b, t) ==
  [ZeroMessage EXCEPT !.MessageType = RequestFlightPlan, !.BCN = b,
                      !.SourceID = formatSourceID(s, t)]

\* C30: a call RequestFlightPlan(b) on a terminal computer appends one
\* RequestFlightPlan message with code b and the computer's source tag to
\* the mailbox of its parent enroute computer and changes nothing else: no
\* other mailbox, the caller's included, and no table or pool of any
\* computer.
C30_RequestFrame ==
  [][RequestCalled =>
       LET s == ret'.comp
           p == TRACON_ARTCC[s]
       IN  /\ MailboxAfter(p) = Append(Mailbox(p), RequestOf(s, ret'.code, ret'.out))
           /\ \A c \in Computers \ {p} : MailboxAfter(c) = Mailbox(c)
           /\ TablesKept]_vars
\* RequestFlightPlan has returned on a terminal computer that has a message
\* in its own mailbox, and its request is the last message of the parent's
\* mailbox.
C30_Witness ==
  /\ ret.op = "RequestFlightPlan"
  /\ Mailbox(TRACON_ARTCC[ret.comp]) # <<>>
  /\ Mailbox(TRACON_ARTCC[ret.comp])[Len(Mailbox(TRACON_ARTCC[ret.comp]))]
       = RequestOf(ret.comp, ret.code, ret.out)
  /\ Mailbox(ret.comp) # <<>>

\* Between two ticks, the request of terminal computer s for code b waits in
\* the mailbox of the parent, which holds a plan for b.
AskedOfHolder(s, b) ==
  /\ pc.op = "idle"
  /\ b # 0
  /\ Has(eram[TRACON_ARTCC[s]].FlightPlans, b)
  /\ \E i \in 1..Len(Mailbox(TRACON_ARTCC[s])) :
       /\ Mailbox(TRACON_ARTCC[s])[i].MessageType = RequestFlightPlan
       /\ Mailbox(TRACON_ARTCC[s])[i].BCN = b
       /\ Requester(Mailbox(TRACON_ARTCC[s])[i]) = s

\* C31: a request of a terminal computer for a code b, not 0, made while
\* the parent enroute computer holds a plan for b, leads to a state in which
\* the terminal computer holds a plan for b, the ticks going on.
C31_RequestResponse ==
  \A s \in {N90} : \A b \in {NASLow} :
    AskedOfHolder(s, b) ~> TerminalHolds(stars[s], b)

(***************************************************************************)
(* Transfers at the enroute computer.                                      *)
(***************************************************************************)
\* This step handles a message of type ty in the drain of an enroute
\* computer.
HandlesType(ty) ==
  /\ pc.op = "SortMessages" /\ pc.i <= Len(pc.batch) /\ pc' # pc
  /\ pc.batch[pc.i].MessageType = ty
\* The track entry of computer e for the identifier of message m, after the
\* step.
EnrouteEntry(e, m) == eram'[e].TrackInformation[m.Identifier]

\* The plan that enroute computer ec stores under code b, NilRef for none.
StoredPlan(ec, b) == IF Has(ec.FlightPlans, b) THEN TablePlan(ec, b) ELSE NilRef

\* C32: the step in which an enroute computer handles an InitiateTransfer
\* leaves a track entry for the message's identifier with the owner and the
\* handoff controller of the message; an entry created by the step has the
\* plan stored under the message's code, an entry that was there has that
\* plan or the one it had; the code is in the pool; and when a plan is
\* stored under the code the entry has a plan and the drain goes on.
C32_TransferRecorded ==
  [][HandlesType(InitiateTransfer) =>
       LET e == pc.comp
           m == pc.batch[pc.i]
       IN  /\ Has(eram'[e].TrackInformation, m.Identifier)
           /\ EnrouteEntry(e, m).TrackOwner = m.TrackOwner
           /\ EnrouteEntry(e, m).HandoffController = m.HandoffController
           /\ IF Has(eram[e].TrackInformation, m.Identifier)
              THEN TrackPlan(eram'[e], m.Identifier)
                     \in {TrackPlan(eram[e], m.Identifier), StoredPlan(eram[e], m.BCN)}
              ELSE /\ EnrouteEntry(e, m).FlightPlan = PlanRef(eram'[e], m.BCN)
                   /\ TrackPlan(eram'[e], m.Identifier) = StoredPlan(eram[e], m.BCN)
           /\ m.BCN \in eram'[e].AvailableSquawks
           /\ Has(eram[e].FlightPlans, m.BCN) =>
                /\ EnrouteEntry(e, m).FlightPlan # NilRef
                /\ pc'.op # "panic"]_vars

\* An InitiateTransfer was handled for a track that had an entry with
\* another owner, and the entry has the owner of the message now.
C32_Witness ==
  /\ pc.op = "SortMessages" /\ pc.i > 2 /\ pc.i - 1 <= Len(pc.batch)
  /\ pc.batch[pc.i - 1].MessageType = InitiateTransfer
  /\ \E j \in 1..(pc.i - 2) :
       /\ pc.batch[j].MessageType = InitiateTransfer
       /\ pc.batch[j].Identifier = pc.batch[pc.i - 1].Identifier
       /\ pc.batch[j].TrackOwner # pc.batch[pc.i - 1].TrackOwner
  /\ Has(eram[pc.comp].TrackInformation, pc.batch[pc.i - 1].Identifier)
  /\ eram[pc.comp].TrackInformation[pc.batch[pc.i - 1].Identifier].TrackOwner
       = pc.batch[pc.i - 1].TrackOwner
  /\ pc.batch[pc.i - 1].BCN \in eram[pc.comp].AvailableSquawks
  /\ pc.batch[pc.i - 1].BCN \in issued[pc.comp]

\* The altitude of the plan of the track of message m at computer e once
\* the handler has made sure the track has an entry.
TrackAltitude(e, m) ==
  IF Has(eram[e].TrackInformation, m.Identifier)
  THEN TrackPlan(eram[e], m.Identifier).Altitude
  ELSE StoredPlan(eram[e], m.BCN).Altitude
\* Message m with the source tag of computer e at clock value now.
Stamped(m, e, now) == [m EXCEPT !.SourceID = formatSourceID(e, now)]
\* This step handles a message of type ty and the drain goes on.
Completes(ty) == HandlesType(ty) /\ pc'.op # "panic"

\* C33: the step in which an enroute computer handles an InitiateTransfer
\* whose fix resolves, for the altitude of the track's plan, to a facility
\* other than the computer appends one copy of the message, with the
\* computer's id and the current time as source tag, to the mailbox of that
\* facility, a peer enroute computer or a terminal computer, and nothing
\* else; when the fix resolves to the computer itself, or does not resolve,
\* it appends nothing and the track entry stays.
C33_TransferRouted ==
  [][Completes(InitiateTransfer) =>
       LET e == pc.comp
           m == pc.batch[pc.i]
           fx == AdaptationFixForAltitude(e, m.CoordinationFix, TrackAltitude(e, m))
       IN  IF fx.ok /\ fx.fix.ToFacility # e
           THEN ForwardsOnce(fx.fix.ToFacility, Stamped(m, e, pc.simTime))
           ELSE NewPlaces = {} /\ Has(eram'[e].TrackInformation, m.Identifier)]_vars
\* The same, with forwarding only to the peer enroute computers and to the
\* terminal computers that the enroute computer owns.
TransferRoutedToKnown ==
  [][Completes(InitiateTransfer) =>
       LET e == pc.comp
           m == pc.batch[pc.i]
           fx == AdaptationFixForAltitude(e, m.CoordinationFix, TrackAltitude(e, m))
       IN  IF fx.ok /\ fx.fix.ToFacility \in ERAMInboxes(e) \cup STARSComputers(e)
           THEN ForwardsOnce(fx.fix.ToFacility, Stamped(m, e, pc.simTime))
           ELSE NewPlaces = {} /\ Has(eram'[e].TrackInformation, m.Identifier)]_vars

\* C34: the step in which an enroute computer handles an
\* AcceptRecallTransfer whose fix resolves, for the altitude of the track's
\* plan, to a rule with an origin other than the computer appends one copy
\* of the message to the mailbox of the origin facility and nothing else;
\* when the fix is unknown, does not resolve for the altitude, or the origin
\* is the computer itself, the step appends nothing.
C34_AcceptRouted ==
  [][Completes(AcceptRecallTransfer) =>
       LET e == pc.comp
           m == pc.batch[pc.i]
           fx == AdaptationFixForAltitude(e, m.CoordinationFix,
                                          TrackPlan(eram[e], m.Identifier).Altitude)
       IN  IF fx.ok /\ fx.fix.FromFacility # e
           THEN ForwardsOnce(fx.fix.FromFacility, m)
           ELSE NewPlaces = {}]_vars
\* The same, with forwarding only to the peer enroute computers.
AcceptRoutedToPeer ==
  [][Completes(AcceptRecallTransfer) =>
       LET e == pc.comp
           m == pc.batch[pc.i]
           fx == AdaptationFixForAltitude(e, m.CoordinationFix,
                                          TrackPlan(eram[e], m.Identifier).Altitude)
       IN  IF fx.ok /\ fx.fix.FromFacility \in ERAMInboxes(e)
           THEN ForwardsOnce(fx.fix.FromFacility, m)
           ELSE NewPlaces = {}]_vars

(***************************************************************************)
(* Codes put back into the pool of an enroute computer.                    *)
(***************************************************************************)
\* The codes that the step adds to the pool of enroute computer e.
Gained(e) == eram'[e].AvailableSquawks \ eram[e].AvailableSquawks
\* Message m is for a track that computer e has an entry for, with the
\* owner the entry has (a recall) or with another owner (an accept).
RecallAt(e, m) ==
  /\ m.MessageType = AcceptRecallTransfer
  /\ Has(eram[e].TrackInformation, m.Identifier)
  /\ m.TrackOwner = eram[e].TrackInformation[m.Identifier].TrackOwner
AcceptAt(e, m) ==
  /\ m.MessageType = AcceptRecallTransfer
  /\ Has(eram[e].TrackInformation, m.Identifier)
  /\ m.TrackOwner # eram[e].TrackInformation[m.Identifier].TrackOwner

\* C35: a step adds a code to the pool of an enroute computer only when the
\* computer handles an InitiateTransfer or a recall, and the code is the
\* message's; so no Plan, RequestFlightPlan, DepartureDM or BeaconTerminate
\* message, no push and no call adds one.  The step that handles an accept
\* leaves the pool as it is and changes nothing in the tables but the owner
\* of the entry, which becomes the message's when the fix is in the
\* adaptation.
C35_ReleaseOnlyWhenFree ==
  [][\A e \in ARTCCs :
       /\ Gained(e) # {} =>
            /\ pc.op = "SortMessages" /\ pc.comp = e /\ pc.i <= Len(pc.batch)
            /\ Gained(e) = {pc.batch[pc.i].BCN}
            /\ \/ pc.batch[pc.i].MessageType = InitiateTransfer
               \/ RecallAt(e, pc.batch[pc.i])
       /\ (HandlesType(AcceptRecallTransfer) /\ pc.comp = e /\ AcceptAt(e, pc.batch[pc.i])) =>
            LET m == pc.batch[pc.i]
            IN  /\ eram'[e].AvailableSquawks = eram[e].AvailableSquawks
                /\ eram'[e].FlightPlans = eram[e].FlightPlans
                /\ eram'[e].heap = eram[e].heap
                /\ eram'[e].TrackInformation =
                     [eram[e].TrackInformation EXCEPT ![m.Identifier].TrackOwner =
                        IF Has(CoordinationFixes(e), m.CoordinationFix)
                        THEN m.TrackOwner ELSE @]]_vars
\* A recall has put a code back that CreateSquawk had drawn: the code is in
\* the pool again, and the messages handled before in this drain, a Plan
\* message among them, were for other codes.
C35_Witness ==
  /\ pc.op = "SortMessages" /\ pc.i > 1 /\ pc.i - 1 <= Len(pc.batch)
  /\ pc.batch[pc.i - 1].MessageType = AcceptRecallTransfer
  /\ pc.batch[pc.i - 1].BCN \in issued[pc.comp]
  /\ pc.batch[pc.i - 1].BCN \in eram[pc.comp].AvailableSquawks
  /\ \E j \in 1..(pc.i - 2) : pc.batch[j].MessageType = Plan
  /\ \A j \in 1..(pc.i - 2) : pc.batch[j].BCN # pc.batch[pc.i - 1].BCN


(***************************************************************************)
(* Transfers and accepts handled again by a terminal computer.             *)
(***************************************************************************)
\* C36: the step in which a terminal computer handles an InitiateTransfer
\* for a code without a plan in the plan table and an identifier with a
\* track entry gives the entry the owner and the handoff controller of the
\* message, leaves the plan of the entry, every other entry and the plan
\* table as they are, and posts one transfer-accepted event.
C36_TransferUpdatesEntry ==
  [][(STARSStep /\ CurMsg.MessageType = InitiateTransfer
        /\ ~Has(Cur.ContainedPlans, CurMsg.BCN)
        /\ Has(Cur.TrackInformation, CurMsg.Identifier))
     => /\ CurAfter.TrackInformation =
             [Cur.TrackInformation EXCEPT
                ![CurMsg.Identifier].TrackOwner = CurMsg.TrackOwner,
                ![CurMsg.Identifier].HandoffController = CurMsg.HandoffController]
        /\ CurAfter.ContainedPlans = Cur.ContainedPlans
        /\ events' = Append(events, Event(TransferAcceptedEvent, CurMsg.Identifier,
                                          CurMsg.TrackOwner))]_vars
\* Two transfers for one identifier with different owners were handled one
\* after the other: the first took the plan out of the plan table or found
\* none, the second found the entry, which has its owner and handoff
\* controller now, and the last event is the acceptance.
C36_Witness ==
  /\ Handled /\ pc.i > 2
  /\ LastMsg.MessageType = InitiateTransfer
  /\ pc.batch[pc.i - 2].MessageType = InitiateTransfer
  /\ pc.batch[pc.i - 2].Identifier = LastMsg.Identifier
  /\ pc.batch[pc.i - 2].BCN = LastMsg.BCN
  /\ pc.batch[pc.i - 2].TrackOwner # LastMsg.TrackOwner
  /\ Has(Cur.TrackInformation, LastMsg.Identifier)
  /\ Cur.TrackInformation[LastMsg.Identifier].TrackOwner = LastMsg.TrackOwner
  /\ Cur.TrackInformation[LastMsg.Identifier].HandoffController = LastMsg.HandoffController
  /\ events # <<>>
  /\ events[Len(events)] = Event(TransferAcceptedEvent, LastMsg.Identifier, LastMsg.TrackOwner)

\* This step is a call of SendTrackInfo on a terminal computer.
TrackInfoSent == ret'.op = "SendTrackInfo"
\* The computer whose mailbox a message that terminal computer s sends to
\* facility f belongs to: f when f is another terminal computer, and the
\* parent enroute computer of s otherwise.
TrackInfoReceiver(s, f) == IF f \in TRACONs \ {s} THEN f ELSE TRACON_ARTCC[s]

\* C37: a call SendTrackInfo(f, msg) on a terminal computer appends the
\* message, with the computer's id and the clock value as source tag, to the
\* mailbox of terminal computer f when f is another terminal computer and
\* to the mailbox of the parent enroute computer otherwise, and changes
\* nothing else: no other mailbox, the sender's included, and no table or
\* pool; the mailboxes a terminal computer knows do not include its own.
C37_SendTrackInfoFrame ==
  [][TrackInfoSent =>
       LET s == ret'.comp
           d == TrackInfoReceiver(s, ret'.to)
       IN  /\ MailboxAfter(d) = Append(Mailbox(d), Stamped(ret'.msg, s, ret'.out))
           /\ \A c \in Computers \ {d} : MailboxAfter(c) = Mailbox(c)
           /\ TablesKept
           /\ s \notin STARSInbox(s)]_vars
\* N90 has sent track information addressed to itself while it holds a plan
\* and has mail: the message is the last one of the parent's mailbox and
\* N90's own mailbox does not end with it.
C37_Witness ==
  /\ ret.op = "SendTrackInfo" /\ ret.comp = N90 /\ ret.to = N90
  /\ Mailbox(ZNY) # <<>>
  /\ Mailbox(ZNY)[Len(Mailbox(ZNY))] = Stamped(ret.msg, N90, ret.out)
  /\ DOMAIN stars[N90].ContainedPlans # {}
  /\ Mailbox(N90) # <<>>
  /\ Mailbox(N90)[Len(Mailbox(N90))] # Stamped(ret.msg, N90, ret.out)

\* This step handles an AcceptRecallTransfer right after the same message.
HandledAgain ==
  /\ STARSStep /\ CurMsg.MessageType = AcceptRecallTransfer
  /\ pc.i > 1 /\ pc.batch[pc.i - 1] = CurMsg

\* C38: the step in which a terminal computer handles an accept, an
\* AcceptRecallTransfer whose owner X is not the owner of the existing
\* entry, makes X the owner and clears the handoff controller; the step in
\* which it handles the same message again finds the entry with owner X and
\* without handoff controller and deletes it.
C38_AcceptTwiceDeletes ==
  [][/\ (STARSStep /\ CurMsg.MessageType = AcceptRecallTransfer
           /\ Has(Cur.TrackInformation, CurMsg.Identifier)
           /\ Cur.TrackInformation[CurMsg.Identifier].TrackOwner # CurMsg.TrackOwner)
        => CurAfter.TrackInformation =
             [Cur.TrackInformation EXCEPT
                ![CurMsg.Identifier].TrackOwner = CurMsg.TrackOwner,
                ![CurMsg.Identifier].HandoffController = ""]
     /\ (HandledAgain /\ Has(Cur.TrackInformation, CurMsg.Identifier))
        => /\ Cur.TrackInformation[CurMsg.Identifier].TrackOwner = CurMsg.TrackOwner
           /\ Cur.TrackInformation[CurMsg.Identifier].HandoffController = ""
           /\ CurAfter.TrackInformation = MapDel(Cur.TrackInformation, CurMsg.Identifier)
           /\ CurAfter.ContainedPlans = Cur.ContainedPlans]_vars
\* An accept was handled and the same message is the next to be handled:
\* the entry is there with the message's owner, which a recall would have
\* deleted, and without handoff controller.
C38_Witness ==
  /\ Handled /\ pc.i <= Len(pc.batch)
  /\ LastMsg.MessageType = AcceptRecallTransfer
  /\ pc.batch[pc.i] = LastMsg
  /\ Has(Cur.TrackInformation, LastMsg.Identifier)
  /\ Cur.TrackInformation[LastMsg.Identifier].TrackOwner = LastMsg.TrackOwner
  /\ Cur.TrackInformation[LastMsg.Identifier].HandoffController = ""

(***************************************************************************)
(* A Plan message for a code that the enroute computer holds already.      *)
(***************************************************************************)
\* The plan objects that the track entries of enroute computer ec hold for
\* code b.
TrackRefs(ec, b) ==
  {ec.TrackInformation[t].FlightPlan : t \in
     {u \in DOMAIN ec.TrackInformation :
        /\ ec.TrackInformation[u].FlightPlan # NilRef
        /\ ec.heap[ec.TrackInformation[u].FlightPlan].AssignedSquawk = b}}
\* The Plan step stores a new object with an empty distribution record under
\* the code of the message and leaves every track entry with the object it
\* had, unchanged.
ReinstallKeepsTrack ==
  (/\ Completes(Plan)
   /\ Has(eram[pc.comp].FlightPlans, pc.batch[pc.i].BCN))
  => LET e == pc.comp
         b == pc.batch[pc.i].BCN
         after == eram'[e]
     IN  /\ Has(after.FlightPlans, b)
         /\ after.FlightPlans[b] # eram[e].FlightPlans[b]
         /\ after.heap[after.FlightPlans[b]].ContainedFacilities = <<>>
         /\ after.TrackInformation = eram[e].TrackInformation
         /\ TrackRefs(after, b) = TrackRefs(eram[e], b)
         /\ \A r \in TrackRefs(eram[e], b) :
              /\ r # after.FlightPlans[b]
              /\ after.heap[r] = eram[e].heap[r]
\* The push transmits the plan stored under a code towards its destination
\* although a track entry holds another object for that code which has the
\* destination in its record or is transmitted towards it by the same push.
PushRepeats ==
  PushStep =>
    LET e == pc.comp
    IN  \A b \in DOMAIN eram[e].FlightPlans :
          \A r \in TrackRefs(eram[e], b) \ {eram[e].FlightPlans[b]} :
            LET new == eram[e].FlightPlans[b]
                d == Resolved(e, PlanAt(e, new)).fix.ToFacility
            IN  (/\ Pending(e, new, pc.simTime)
                 /\ \/ Recorded(PlanAt(e, r), d)
                    \/ /\ Pending(e, r, pc.simTime)
                       /\ Resolved(e, PlanAt(e, r)).fix.ToFacility = d)
                => /\ \E p \in Transmissions(e, b, d) :
                        NewAt(p) = PushMessage(e, PlanAt(e, new), pc.simTime)
                   /\ Cardinality(Transmissions(e, b, d))
                        >= (IF Recorded(PlanAt(e, r), d) THEN 1 ELSE 2)
                   /\ Recorded(eram'[e].heap[new], d)

\* C39: a Plan message for a code that the enroute computer holds stores a
\* new plan object whose distribution record is empty while the track
\* entries keep the old object; the lookahead push then transmits the plan
\* of that code towards a destination that the old object has on record or
\* that the same push transmits the old object to.
C39_ReinstallRepeats == [][ReinstallKeepsTrack /\ PushRepeats]_vars

\* The messages in the mailbox of computer c that enroute computer e has
\* pushed for code b at clock value now.
Pushed(c, e, b, now) ==
  {i \in 1..Len(Mailbox(c)) :
     /\ Mailbox(c)[i].MessageType = Plan
     /\ Mailbox(c)[i].BCN = b
     /\ Mailbox(c)[i].SourceID = formatSourceID(e, now)}
\* ZNY holds two plan objects for code 513, one in the table and one in the
\* track entry of AAL1, both with N90 on record, and the mailbox of N90 has
\* two copies of the plan that the push at clock value 30 has transmitted.
C39_Witness ==
  /\ Has(eram[ZNY].FlightPlans, NASLow)
  /\ \E r \in TrackRefs(eram[ZNY], NASLow) :
       /\ r # eram[ZNY].FlightPlans[NASLow]
       /\ Recorded(PlanAt(ZNY, r), N90)
  /\ Recorded(PlanAt(ZNY, eram[ZNY].FlightPlans[NASLow]), N90)
  /\ Cardinality(Pushed(N90, ZNY, NASLow, TransmitFPMessageTime)) >= 2

(***************************************************************************)
(* The pool of local codes of a terminal computer.                         *)
(***************************************************************************)
\* The codes the pool of a terminal computer is seeded with.
SeededPool(s) == Lowest(getBeaconBankSquawks(starsBeaconBank), MaxCodes)
\* The step is a CreateSquawk call on terminal computer s.
LocalSquawkCalled(s) == SquawkCalled /\ ret'.comp = s

\* Two terminal computers that draw from one pool; the messages delivered to
\* one of them: a plan, its cancellation, a transfer, its accept and its
\* recall.
BankInputs ==
  {PlanMsg(Plan, NASLow, "CAMRN", "110", 45),
   PlanMsg(Cancellation, NASLow, "", "", 0),
   TrackMsg(InitiateTransfer, NASLow, "AAL1", "A", "B", "CAMRN"),
   TrackMsg(AcceptRecallTransfer, NASLow, "AAL1", "B", "", "CAMRN"),
   TrackMsg(AcceptRecallTransfer, NASLow, "AAL1", "A", "", "CAMRN")}

NextBank ==
  \/ \E s \in {N90, PHL} : STARSCreateSquawk(s)
  \/ \E m \in BankInputs :
       Queued(N90) <= MaxQueued /\ CallToSTARSFacility(ZNY, N90, m)
  \/ TickSTARS

SpecBank == Init /\ [][NextBank]_vars

\* C40: no step adds a code to the pool of a terminal computer, whatever
\* messages the computer handles; the pool is the seeded pool without the
\* codes that CreateSquawk has returned, and a CreateSquawk call on a
\* terminal computer that has returned as many codes as the pool was seeded
\* with fails with ErrNoMoreAvailableSquawkCodes and code 0.
C40_PoolNeverGains ==
  [][\A s \in TRACONs :
       /\ PoolAfter(s) \subseteq Pool(s)
       /\ PoolAfter(s) \cap issued'[s] = {}
       /\ PoolAfter(s) \cup issued'[s] \subseteq SeededPool(s)
       /\ (LocalSquawkCalled(s)
           /\ Cardinality(issued[s]) >= Cardinality(SeededPool(s)))
          => /\ ret'.err = ErrNoMoreAvailableSquawkCodes
             /\ ret'.code = 0
             /\ PoolAfter(s) = {}]_vars

\* CreateSquawk on N90 has failed after N90 has returned every code of the
\* seeded pool and has handled, in drains that left three blank slots or
\* more, a transfer of AAL1 and its accept by B.
C40_Witness ==
  /\ ret.op = "CreateSquawk" /\ ret.comp = N90
  /\ ret.err = ErrNoMoreAvailableSquawkCodes
  /\ issued[N90] = SeededPool(N90)
  /\ Pool(N90) = {}
  /\ Len(Mailbox(N90)) >= 3
  /\ \A i \in 1..Len(Mailbox(N90)) : Mailbox(N90)[i] = ZeroMessage
  /\ Has(stars[N90].TrackInformation, "AAL1")
  /\ stars[N90].TrackInformation["AAL1"].TrackOwner = "B"
  /\ stars[N90].TrackInformation["AAL1"].HandoffController = ""
=============================================================================
